---- MODULE Spec2Model ----
(***************************************************************************)
(* Model of find-dhcp-servers (obarthel/dhcp-client): one DISCOVER cycle   *)
(* of main(), the receive pipeline ether_input -> ip_input -> udp_input -> *)
(* dhcp_input, the response registry and the rendering of the report.      *)
(***************************************************************************)
EXTENDS Integers, Sequences, FiniteSets, TLC

(***************************************************************************)
(* Bounds of the model.                                                    *)
(***************************************************************************)
\* wall-clock ticks a run without deadline is followed for; the capture
\* loop handles any number of frames in that time
MaxClock == 1
\* octets of a buffer the checksum is taken over on its own
MaxCksumLen == 5
\* options in the options area of a response decoded on its own
MaxOptions == 3
\* names in a domain search list decoded on its own
MaxNames == 3
\* routes in a classless static route option decoded on its own
MaxRoutes == 2
\* how far around a change of unit the durations converted on their own lie
MaxDurationDelta == 3
\* frames handed to the receive path while the registry is followed on its
\* own
MaxDeliveries == 2
\* octets the UDP length field of a datagram claims beyond the captured ones
MaxExtra == 2
\* the longest value of an option with a length constraint
MaxOptionLength == 9
\* how far the transaction IDs of a DISCOVER lie from 12272
MaxXidDelta == 3
\* the longest encoded domain name handed to decode_domain_name
MaxNameLen == 4
\* the longest options area handed to fill_aggregate_buffer_from_option
MaxAreaLen == 6
\* the nodes a list is made of
MaxNodes == 4

(***************************************************************************)
(* Program constants.                                                      *)
(***************************************************************************)
BOOTREQUEST == 1
BOOTREPLY == 2
OPTION_TYPE_PAD == 0
OPTION_TYPE_SUBNET_MASK == 1
OPTION_TYPE_GATEWAY == 3
OPTION_TYPE_DNS == 6
OPTION_TYPE_INTERFACE_MTU == 26
OPTION_TYPE_NTP_SERVERS == 42
OPTION_TYPE_MAXIMUM_DHCP_MESSAGE_SIZE == 57
OPTION_TYPE_IP_ADDRESS_LEASE_TIME == 51
OPTION_TYPE_DHCP_MESSAGE_TYPE == 53
OPTION_TYPE_SERVER_IDENTIFIER == 54
OPTION_TYPE_DOMAIN_SEARCH == 119
OPTION_TYPE_CLASSLESS_STATIC_ROUTE == 121
OPTION_TYPE_END == 255
MESSAGE_TYPE_DISCOVER == 1
MESSAGE_TYPE_OFFER == 2
MESSAGE_TYPE_INFORM == 8
DEFAULT_BOOTP_SERVER_PORT == 67
DEFAULT_BOOTP_CLIENT_PORT == 68
\* 0x63825363
DHCP_MAGIC_COOKIE == 1669485411
\* 0x0800
ETHERTYPE_IP == 2048
IPPROTO_UDP == 17
EXIT_SUCCESS == 0
EXIT_FAILURE == 1

\* sizeof(struct ether_header), sizeof(struct ip), sizeof(struct udphdr),
\* sizeof(bootp_t) (vend[0] has no size) and sizeof(parameter_req_list)
SizeofEtherHeader == 14
SizeofIp == 20
SizeofUdphdr == 8
SizeofBootp == 240
SizeofParameterReqList == 25
SizeofPacket == 512
\* char text_buffer[1500] of dhcp_input, char domain_name_buffer[256] of
\* decode_domain_search
SizeofTextBuffer == 1500
SizeofDomainNameBuffer == 256
MinDhcpMessage == 300

(***************************************************************************)
(* Values the environment supplies.                                        *)
(***************************************************************************)
\* client_mac_address, broadcast_mac_address and the MAC of another host
ClientMac == "02:11:22:33:44:55"
BroadcastMac == "ff:ff:ff:ff:ff:ff"
OtherMac == "02:11:22:33:44:66"
\* source addresses DHCP servers answer from
ServerIps == {1, 2}
ServerMacs == {"aa:bb:cc:dd:ee:01", "aa:bb:cc:dd:ee:02"}
\* xids seen on the wire, and the values rand() returns for transaction_id
Xids == {7, 8}
RandValues == {7}
\* the options of a run without arguments, the deadline counted in ticks
\* (min, max = 0: option absent; timeout = 0: no deadline)
NoOptions == [quiet |-> FALSE, min |-> 0, max |-> 0, timeout |-> 1,
              ignore_checksums |-> FALSE]
\* command lines: each option alone, and the options that act together
CommandLines ==
    { NoOptions,
      [NoOptions EXCEPT !.quiet = TRUE],
      [NoOptions EXCEPT !.min = 2],
      [NoOptions EXCEPT !.max = 2],
      [NoOptions EXCEPT !.timeout = 0],
      [NoOptions EXCEPT !.ignore_checksums = TRUE],
      [NoOptions EXCEPT !.quiet = TRUE, !.min = 2],
      [NoOptions EXCEPT !.max = 2, !.timeout = 0],
      [NoOptions EXCEPT !.min = 2, !.max = 2],
      [quiet |-> TRUE, min |-> 2, max |-> 2, timeout |-> 0, ignore_checksums |-> TRUE] }
\* MTU of the interface in a full run, and MTUs the DISCOVER is built for
RunMtus == {1500}
DiscoverMtus == (60 .. 72) \cup (296 .. 310) \cup {576, 1280, 1492, 1500, 9000, 65535}

\* options areas (dhcp->vend, vendor_options_length octets)
VendOffer == <<53, 1, 2, 255>>
VendOfferSid == <<0, 53, 1, 2, 54, 4, 1, 1, 1, 1, 255>>
VendZeroLen == <<53, 0, 2, 255>>
VendAck == <<53, 1, 5, 255>>
VendAckOffer == <<53, 1, 5, 53, 1, 2, 255>>
VendNoType == <<1, 4, 255, 255, 255, 0, 255>>
VendTruncated == <<0, 53, 1>>
VendEmpty == <<>>
Vends == {VendOffer, VendOfferSid, VendZeroLen, VendAck, VendAckOffer,
          VendNoType, VendTruncated, VendEmpty}

\* allocations of one dhcp_input call that fail: 0 is the calloc of the
\* responder record, i >= 1 the i-th key/value node
OomChoices == {{}, {0}}

NoFrame == [none |-> TRUE]

(***************************************************************************)
(* Captured frames: the header fields the receive path looks at.           *)
(***************************************************************************)
BaseOffer(ip, mac, vend, xid) ==
    [ ether_type |-> ETHERTYPE_IP, ether_dhost |-> BroadcastMac,
      ether_shost |-> mac,
      ip_sum_ok |-> TRUE, ip_p |-> IPPROTO_UDP, ip_src |-> ip,
      uh_sum |-> "valid", uh_sport |-> DEFAULT_BOOTP_SERVER_PORT,
      opcode |-> BOOTREPLY, magic_cookie |-> DHCP_MAGIC_COOKIE, xid |-> xid,
      yiaddr |-> 100, siaddr |-> 0, giaddr |-> 0,
      sname |-> "", file |-> "", vend |-> vend ]

\* one field of a frame changed (2054 is the ethertype of ARP, 6 the IP
\* protocol number of TCP)
Variants(g) ==
    { g,
      [g EXCEPT !.ether_type = 2054],
      [g EXCEPT !.ether_dhost = OtherMac],
      [g EXCEPT !.ether_dhost = ClientMac],
      [g EXCEPT !.ip_sum_ok = FALSE],
      [g EXCEPT !.ip_p = 6],
      [g EXCEPT !.uh_sum = "invalid"],
      [g EXCEPT !.uh_sum = "zero"],
      [g EXCEPT !.uh_sport = DEFAULT_BOOTP_CLIENT_PORT],
      [g EXCEPT !.opcode = BOOTREQUEST],
      [g EXCEPT !.magic_cookie = 0],
      [g EXCEPT !.xid = CHOOSE x \in Xids : x # g.xid],
      [g EXCEPT !.siaddr = 9, !.sname = "srv"] }

\* servers that answer: two share an IPv4 address, two share a MAC address
Servers == { <<ip, mac>> \in ServerIps \X ServerMacs :
                ip = 1 \/ mac = "aa:bb:cc:dd:ee:01" }

Frames(xid) ==
    Variants(BaseOffer(1, "aa:bb:cc:dd:ee:01", VendOffer, xid))
    \cup { BaseOffer(srv[1], srv[2], VendOffer, xid) : srv \in Servers }
    \cup { BaseOffer(1, "aa:bb:cc:dd:ee:01", v, xid) : v \in Vends }

(***************************************************************************)
(* Pure functions of the receive path.                                     *)
(***************************************************************************)
\* vendor_options[pos] with the C index pos (0-based)
At(v, pos) == v[pos + 1]

RECURSIVE GetTypeFrom(_, _)
GetTypeFrom(v, pos) ==
    IF pos >= Len(v) THEN -1
    ELSE LET option_type == At(v, pos)
             p1 == pos + 1
         IN  IF option_type = OPTION_TYPE_PAD THEN GetTypeFrom(v, p1)
             ELSE IF option_type = OPTION_TYPE_END \/ p1 = Len(v) THEN -1
             ELSE LET option_length == At(v, p1)
                      p2 == p1 + 1
                  IN  IF p2 = Len(v) THEN -1
                      ELSE IF option_type = OPTION_TYPE_DHCP_MESSAGE_TYPE
                           THEN At(v, p2)
                      ELSE GetTypeFrom(v, p2 + option_length)

get_dhcp_message_type(vendor_options) == GetTypeFrom(vendor_options, 0)

\* a key/value node: the key and the printf format with its arguments
\* (numbers in n, a string argument in s)
KV(key, fmt, n, s) == [key |-> key, value |-> [fmt |-> fmt, n |-> n, s |-> s]]

InterfaceName == "eth0"

Max(a, b) == IF a > b THEN a ELSE b

\* the element of a set of one element. Only({ F(x) : x \in {e} }) is F
\* of the value of e, with e worked out once
Only(S) == CHOOSE x \in S : TRUE

\* the octet at the C index i of a buffer of which Len(buffer) octets are
\* known: an octet beyond them lies outside the object or was never
\* written, and the read yields what the memory happens to hold (junk)
Octet(buffer, i, junk) == IF i < Len(buffer) THEN buffer[i + 1] ELSE junk

\* aligned_buffer after the memmove of option_length octets from
\* vendor_options[pos] and the NUL stored behind them; the octets further
\* up keep what an earlier option left there
OptionData(v, pos, option_length, option_data, junk) ==
    [i \in 1 .. Max(option_length + 1, Len(option_data)) |->
        IF i <= option_length THEN Octet(v, pos + i - 1, junk)
        ELSE IF i = option_length + 1 THEN 0
        ELSE option_data[i]]

MessageTypeName(t) ==
    CASE t = 1 -> "discover" [] t = 2 -> "offer" [] t = 3 -> "request"
      [] t = 4 -> "decline" [] t = 5 -> "acknowledge"
      [] t = 6 -> "negative acknowledgement" [] t = 7 -> "release"
      [] OTHER -> "inform"

\* one octet of a char buffer as printf writes it: itself; the letters,
\* digits and punctuation of host names and lists are written out, any
\* other octet is shown by its number
Chr(c) ==
    IF 97 <= c /\ c <= 122 THEN SubSeq("abcdefghijklmnopqrstuvwxyz", c - 96, c - 96)
    ELSE IF 48 <= c /\ c <= 57 THEN SubSeq("0123456789", c - 47, c - 47)
    ELSE IF c = 46 THEN "."
    ELSE IF c = 44 THEN ","
    ELSE IF c = 32 THEN " "
    ELSE IF c = 45 THEN "-"
    ELSE "<" \o ToString(c) \o ">"

\* a char buffer printed with %s: the characters before the first NUL
RECURSIVE Text(_)
Text(buffer) ==
    IF buffer = << >> \/ Head(buffer) = 0 THEN ""
    ELSE Chr(Head(buffer)) \o Text(Tail(buffer))

\* %02u
Pad2(n) == IF n < 10 THEN "0" \o ToString(n) ELSE ToString(n)

\* the hours field of the days branch, not reduced modulo 24
hours_of_day_unreduced(seconds) == seconds \div (60 * 60)

\* the hours field of the days branch
hours_of_day(seconds) == (seconds \div (60 * 60)) % 24

\* convert_seconds_to_readable_form: the arguments of the snprintf call the
\* branch makes and the unit word of its format, nothing for strcpy("")
convert_seconds_to_readable_form(seconds) ==
    IF seconds < 60 THEN [n |-> << >>, unit |-> ""]
    ELSE IF seconds < 60 * 60
    THEN LET minutes == seconds \div 60
         IN  [n |-> <<minutes, seconds % 60>>,
              unit |-> IF minutes > 1 THEN "minutes" ELSE "minute"]
    ELSE IF seconds < 24 * 60 * 60
    THEN LET hours == seconds \div (60 * 60)
         IN  [n |-> <<hours, (seconds \div 60) % 60, seconds % 60>>,
              unit |-> IF hours > 1 THEN "hours" ELSE "hour"]
    ELSE LET days == seconds \div (24 * 60 * 60)
         IN  [n |-> <<days, hours_of_day(seconds), (seconds \div 60) % 60, seconds % 60>>,
              unit |-> IF days > 1 THEN "days" ELSE "day"]

\* the buffer convert_seconds_to_readable_form leaves: " (%u:%02u ... unit)"
RECURSIVE Fields(_, _)
Fields(n, i) == IF i > Len(n) THEN "" ELSE ":" \o Pad2(n[i]) \o Fields(n, i + 1)

ReadableForm(r) ==
    IF r.n = << >> THEN ""
    ELSE " (" \o ToString(r.n[1]) \o Fields(r.n, 2) \o " " \o r.unit \o ")"

\* %u.%u.%u.%u
Dotted(o) ==
    ToString(o[1]) \o "." \o ToString(o[2]) \o "." \o ToString(o[3]) \o "." \o ToString(o[4])

\* the loop of decode_classless_static_route from pos on, with the text
\* and the number of routes decoded so far; result -1 for the exits taken
\* with goto out
RECURSIVE ClasslessRoutesFrom(_, _, _, _, _)
ClasslessRoutesFrom(option_data, option_length, pos, text, num_routes_decoded) ==
    IF pos >= option_length THEN [result |-> num_routes_decoded, text |-> text]
    ELSE LET num_destination_octets == option_data[pos + 1]
             p1 == pos + 1
             failed == [result |-> -1, text |-> text]
         IN  IF num_destination_octets > 4 THEN failed
             ELSE IF p1 + num_destination_octets > option_length THEN failed
             ELSE LET destination_octets ==
                          [i \in 1 .. 4 |-> IF i <= num_destination_octets
                                            THEN option_data[p1 + i] ELSE 0]
                      p2 == p1 + num_destination_octets
                  IN  IF p2 + 4 > option_length THEN failed
                      ELSE LET route_octets == [i \in 1 .. 4 |-> option_data[p2 + i]]
                               decoded_route_buffer ==
                                   IF num_destination_octets = 0 THEN Dotted(route_octets)
                                   ELSE IF num_destination_octets = 4
                                   THEN Dotted(destination_octets) \o " -> " \o Dotted(route_octets)
                                   ELSE Dotted(destination_octets) \o "/"
                                        \o ToString(num_destination_octets * 8)
                                        \o " -> " \o Dotted(route_octets)
                               separated == IF Len(text) > 0 THEN text \o ", " ELSE text
                           IN  IF Len(text) > 0 /\ Len(text) + 2 > SizeofTextBuffer - 1
                               THEN failed
                               ELSE IF Len(separated) + Len(decoded_route_buffer)
                                          > SizeofTextBuffer - 1
                               THEN [result |-> -1, text |-> separated]
                               ELSE ClasslessRoutesFrom(option_data, option_length, p2 + 4,
                                                        separated \o decoded_route_buffer,
                                                        num_routes_decoded + 1)

decode_classless_static_route(option_data, option_length) ==
    ClasslessRoutesFrom(option_data, option_length, 0, "", 0)

\* the first loop of fill_aggregate_buffer_from_option from read_pos on:
\* what it adds to required_size
RECURSIVE RequiredSizeFrom(_, _, _)
RequiredSizeFrom(v, read_pos, aggregate_option_type) ==
    IF read_pos >= Len(v) THEN 0
    ELSE LET option_type == At(v, read_pos)
             p1 == read_pos + 1
         IN  IF option_type = OPTION_TYPE_PAD
             THEN RequiredSizeFrom(v, p1, aggregate_option_type)
             ELSE IF option_type = OPTION_TYPE_END \/ p1 = Len(v) THEN 0
             ELSE LET option_length == At(v, p1)
                      p2 == p1 + 1
                  IN  IF p2 = Len(v) THEN 0
                      ELSE (IF option_type = aggregate_option_type THEN option_length ELSE 0)
                           + RequiredSizeFrom(v, p2, aggregate_option_type)

\* the second loop from read_pos on with the octets copied so far; the
\* assertion on output_pos ends the program when it fails
RECURSIVE AggregateFrom(_, _, _, _, _, _)
AggregateFrom(v, read_pos, aggregate_option_type, copied, required_size, junk) ==
    IF read_pos >= Len(v) THEN [aborts |-> FALSE, copied |-> copied]
    ELSE LET option_type == At(v, read_pos)
             p1 == read_pos + 1
             done == [aborts |-> FALSE, copied |-> copied]
         IN  IF option_type = OPTION_TYPE_PAD
             THEN AggregateFrom(v, p1, aggregate_option_type, copied, required_size, junk)
             ELSE IF option_type = OPTION_TYPE_END \/ p1 = Len(v) THEN done
             ELSE LET option_length == At(v, p1)
                      p2 == p1 + 1
                  IN  IF p2 = Len(v) THEN done
                      ELSE IF option_type # aggregate_option_type
                      THEN AggregateFrom(v, p2, aggregate_option_type, copied,
                                         required_size, junk)
                      ELSE IF Len(copied) + option_length > required_size
                      THEN [aborts |-> TRUE, copied |-> copied]
                      ELSE AggregateFrom(v, p2 + option_length, aggregate_option_type,
                                         copied \o [i \in 1 .. option_length |->
                                                       Octet(v, p2 + i - 1, junk)],
                                         required_size, junk)

\* the buffer has required_size octets; those the second loop does not
\* fill keep what malloc handed out
fill_aggregate_buffer_from_option(v, aggregate_option_type, junk) ==
    Only({ IF required_size = 0
           THEN [option_data_found |-> FALSE, aborts |-> FALSE, aggregate_buffer |-> << >>]
           ELSE Only({ [option_data_found |-> ~filled.aborts, aborts |-> filled.aborts,
                        aggregate_buffer |->
                            [i \in 1 .. required_size |->
                                Octet(filled.copied, i - 1, junk)]] :
                       filled \in { AggregateFrom(v, 0, aggregate_option_type, << >>,
                                                  required_size, junk) } }) :
           required_size \in { RequiredSizeFrom(v, 0, aggregate_option_type) } })

\* get_domain_name_size on the octets of buffer from base on, at the
\* offset pos from base
RECURSIVE NameSizeFrom(_, _, _)
NameSizeFrom(buffer, base, pos) ==
    LET buffer_size == Len(buffer) - base
    IN  IF pos >= buffer_size THEN pos
        ELSE LET length == At(buffer, base + pos)
                 p1 == pos + 1
             IN  IF length = 0 THEN p1
                 ELSE IF length < 64
                 THEN IF p1 + length > buffer_size THEN 0
                      ELSE NameSizeFrom(buffer, base, p1 + length)
                 ELSE IF length >= 192
                 THEN IF p1 = buffer_size THEN 0 ELSE p1 + 1
                 ELSE 0

get_domain_name_size(buffer, base) == NameSizeFrom(buffer, base, 0)

\* the loop of decode_domain_name from input_pos on with the output
\* written so far. followed holds the positions of the compression
\* pointers taken: the position read next decides what the loop does, so
\* the loop never ends once it takes a pointer a second time
RECURSIVE DomainNameFrom(_, _, _, _, _)
DomainNameFrom(input_buffer, input_pos, output, output_buffer_size, followed) ==
    IF input_pos >= Len(input_buffer)
    THEN [result |-> Len(output), output |-> output, hangs |-> FALSE]
    ELSE LET length == At(input_buffer, input_pos)
             p1 == input_pos + 1
             failed == [result |-> 0, output |-> output, hangs |-> FALSE]
         IN  IF length = 0
             THEN [result |-> Len(output), output |-> output, hangs |-> FALSE]
             ELSE IF length < 64
             THEN IF p1 + length > Len(input_buffer) THEN failed
                  ELSE DomainNameFrom(input_buffer, p1 + length,
                          IF Len(output) + length + 1 < output_buffer_size
                          THEN (IF Len(output) > 0 THEN output \o <<46>> ELSE output)
                               \o SubSeq(input_buffer, p1 + 1, p1 + length)
                          ELSE output,
                          output_buffer_size, followed)
             ELSE IF length >= 192
             THEN IF p1 = Len(input_buffer) THEN failed
                  ELSE LET pointer == ((length - 192) * 256) + At(input_buffer, p1)
                       IN  IF pointer >= Len(input_buffer) THEN failed
                           ELSE IF input_pos \in followed
                           THEN [result |-> 0, output |-> output, hangs |-> TRUE]
                           ELSE DomainNameFrom(input_buffer, pointer, output,
                                               output_buffer_size,
                                               followed \cup {input_pos})
             ELSE failed

decode_domain_name(input_buffer, input_pos, output_buffer_size) ==
    DomainNameFrom(input_buffer, input_pos, << >>, output_buffer_size, {})

\* the ", " decode_domain_search puts in front of a further name
domain_separator(buffer, buffer_size) ==
    IF Len(buffer) > 0 /\ Len(buffer) + 2 < buffer_size THEN buffer \o <<44, 32>>
    ELSE buffer

\* the loop of decode_domain_search over the aggregated data from pos on
\* with the text collected so far: the text buffer, and whether the call
\* returns (found) or never does (hangs)
RECURSIVE DomainSearchFrom(_, _, _, _)
DomainSearchFrom(aggregate_buffer, pos, buffer, buffer_size) ==
    IF pos >= Len(aggregate_buffer)
    THEN [found |-> TRUE, buffer |-> buffer, aborts |-> FALSE, hangs |-> FALSE]
    ELSE Only({
           IF encoded_domain_size = 0
           THEN [found |-> TRUE, buffer |-> buffer, aborts |-> FALSE, hangs |-> FALSE]
           ELSE IF name.hangs
           THEN [found |-> FALSE, buffer |-> buffer, aborts |-> FALSE, hangs |-> TRUE]
           ELSE IF name.result = 0
           THEN DomainSearchFrom(aggregate_buffer, pos + encoded_domain_size,
                                 buffer, buffer_size)
           ELSE Only({ DomainSearchFrom(aggregate_buffer, pos + encoded_domain_size,
                          IF Len(separated) + name.result < buffer_size
                          THEN separated \o name.output ELSE separated,
                          buffer_size) :
                       separated \in { domain_separator(buffer, buffer_size) } }) :
           encoded_domain_size \in { get_domain_name_size(aggregate_buffer, pos) },
           name \in { decode_domain_name(aggregate_buffer, pos, SizeofDomainNameBuffer) } })

\* decode_domain_search: found, the text buffer, and whether the call
\* ends in abort() or never returns
decode_domain_search(v, aggregate_option_type, buffer_size, junk) ==
    Only({ IF ~aggregate.option_data_found
           THEN [found |-> FALSE, buffer |-> << >>, aborts |-> aggregate.aborts,
                 hangs |-> FALSE]
           ELSE DomainSearchFrom(aggregate.aggregate_buffer, 0, << >>, buffer_size) :
           aggregate \in { fill_aggregate_buffer_from_option(v, aggregate_option_type,
                                                             junk) } })

\* ntohs and ntohl of the first octets of option_data
Ntohs(option_data, junk) ==
    (Octet(option_data, 0, junk) * 256) + Octet(option_data, 1, junk)

Ntohl(option_data) ==
    (option_data[1] * 16777216) + (option_data[2] * 65536)
    + (option_data[3] * 256) + option_data[4]

\* the cases of the address-list options: one add_dhcp_option call for
\* each four octets
AddressList(key, option_length, option_data) ==
    IF option_length >= 4 /\ option_length % 4 = 0
    THEN [k \in 1 .. (option_length \div 4) |->
            KV(key, "%u.%u.%u.%u", SubSeq(option_data, (4 * k) - 3, 4 * k), "")]
    ELSE << >>

\* the switch of dhcp_input for the cases modelled and the default: the
\* add_dhcp_option calls one option leads to, and whether the program is
\* still running after it
DecodeOption(option_type, option_length, option_data, v, junk) ==
    LET emit(kvs) == [calls |-> kvs, stops |-> FALSE]
    IN
    CASE option_type = OPTION_TYPE_DHCP_MESSAGE_TYPE ->
           IF MESSAGE_TYPE_DISCOVER <= option_data[1] /\ option_data[1] <= MESSAGE_TYPE_INFORM
           THEN emit(<< KV("dhcp-message-type", "%u (%s)", <<option_data[1]>>,
                           MessageTypeName(option_data[1])) >>)
           ELSE emit(<< KV("dhcp-message-type", "%u", <<option_data[1]>>, "") >>)
      [] option_type = OPTION_TYPE_SERVER_IDENTIFIER ->
           IF option_length >= 4
           THEN emit(<< KV("server-identifier", "%u.%u.%u.%u", SubSeq(option_data, 1, 4), "") >>)
           ELSE emit(<< >>)
      [] option_type = OPTION_TYPE_IP_ADDRESS_LEASE_TIME ->
           IF option_length >= 4
           THEN LET seconds == Ntohl(option_data)
                IN  emit(<< KV("ip-address-lease-time", "%u seconds%s", <<seconds>>,
                               ReadableForm(convert_seconds_to_readable_form(seconds))) >>)
           ELSE emit(<< >>)
      [] option_type = OPTION_TYPE_SUBNET_MASK ->
           IF option_length >= 4
           THEN emit(<< KV("subnet-mask", "%u.%u.%u.%u", SubSeq(option_data, 1, 4), "") >>)
           ELSE emit(<< >>)
      [] option_type = OPTION_TYPE_DOMAIN_SEARCH ->
           Only({ IF search.aborts \/ search.hangs THEN [calls |-> << >>, stops |-> TRUE]
                  ELSE IF search.found
                  THEN emit(<< KV("domain-search", "%s", << >>, Text(search.buffer)) >>)
                  ELSE emit(<< >>) :
                  search \in { decode_domain_search(v, option_type, SizeofTextBuffer,
                                                    junk) } })
      [] option_type = OPTION_TYPE_CLASSLESS_STATIC_ROUTE ->
           LET routes == decode_classless_static_route(option_data, option_length)
           IN  IF routes.result > 0
               THEN emit(<< KV("classless-static-route", "%s", << >>, routes.text) >>)
               ELSE emit(<< >>)
      [] option_type = OPTION_TYPE_INTERFACE_MTU ->
           emit(<< KV("interface-mtu", "%u", <<Ntohs(option_data, junk)>>, "") >>)
      [] option_type = OPTION_TYPE_GATEWAY ->
           emit(AddressList("gateway", option_length, option_data))
      [] option_type = OPTION_TYPE_DNS ->
           emit(AddressList("domain-name-server", option_length, option_data))
      [] option_type = OPTION_TYPE_NTP_SERVERS ->
           emit(AddressList("network-time-protocol-server", option_length, option_data))
      [] option_type = OPTION_TYPE_MAXIMUM_DHCP_MESSAGE_SIZE ->
           IF option_length >= 4
           THEN emit(<< KV("maximum-dhcp-message-size", "%u",
                           <<Ntohs(option_data, junk)>>, "") >>)
           ELSE emit(<< >>)
      [] OTHER ->
           emit(<< KV("option-" \o ToString(option_type), "%u data bytes",
                      <<option_length>>, "") >>)

\* the TLV loop of dhcp_input from pos on, with the contents of
\* aligned_buffer and the option types ignore_option holds: the
\* add_dhcp_option calls, in order, and whether the loop is left
RECURSIVE OptionLoop(_, _, _, _, _)
OptionLoop(v, pos, option_data, ignore_option, junk) ==
    IF pos >= Len(v) THEN [calls |-> << >>, stops |-> FALSE]
    ELSE LET option_type == At(v, pos)
             p1 == pos + 1
         IN  IF option_type = OPTION_TYPE_PAD
             THEN OptionLoop(v, p1, option_data, ignore_option, junk)
             ELSE IF option_type = OPTION_TYPE_END \/ p1 = Len(v)
             THEN [calls |-> << >>, stops |-> FALSE]
             ELSE LET option_length == At(v, p1)
                      p2 == p1 + 1
                  IN  IF p2 = Len(v) THEN [calls |-> << >>, stops |-> FALSE]
                      ELSE Only(
                             { IF option_type \in ignore_option
                               THEN OptionLoop(v, p2 + option_length, data,
                                               ignore_option, junk)
                               ELSE Only(
                                      { IF this.stops THEN this
                                        ELSE [calls |-> this.calls \o rest.calls,
                                              stops |-> rest.stops] :
                                          this \in { DecodeOption(option_type, option_length,
                                                                  data, v, junk) },
                                          rest \in { OptionLoop(v, p2 + option_length, data,
                                                      IF option_type = OPTION_TYPE_DOMAIN_SEARCH
                                                      THEN ignore_option \cup {option_type}
                                                      ELSE ignore_option, junk) } })
                               : data \in { OptionData(v, p2, option_length,
                                                       option_data, junk) } })

\* the C offset behind the last octet of vendor_options the TLV loop of
\* dhcp_input reads from pos on: the type octet, the length octet and the
\* option_length octets the memmove takes
RECURSIVE ReadEndFrom(_, _, _)
ReadEndFrom(v, pos, read_end) ==
    IF pos >= Len(v) THEN read_end
    ELSE LET option_type == At(v, pos)
             p1 == pos + 1
         IN  IF option_type = OPTION_TYPE_PAD THEN ReadEndFrom(v, p1, Max(read_end, p1))
             ELSE IF option_type = OPTION_TYPE_END \/ p1 = Len(v) THEN Max(read_end, p1)
             ELSE LET option_length == At(v, p1)
                      p2 == p1 + 1
                  IN  IF p2 = Len(v) THEN Max(read_end, p2)
                      ELSE ReadEndFrom(v, p2 + option_length,
                                       Max(read_end, p2 + option_length))

\* the add_dhcp_option calls of a response with one of the options areas
\* of Vends, which keep every octet the decoder reads inside the area
OptionCalls == [v \in Vends |-> OptionLoop(v, 0, << >>, {}, 0).calls]

\* the add_dhcp_response calls of dhcp_input, in order
ResponseCalls(f) ==
    << KV("network-interface", "%s (%02x)", << >>, InterfaceName \o " " \o ClientMac) >>
    \o (IF f.sname # "" THEN << KV("server-name", "\"%s\"", << >>, f.sname) >> ELSE << >>)
    \o << KV("server-ipv4-address", "%u.%u.%u.%u", <<f.ip_src>>, ""),
          KV("server-mac-address", "%02x", << >>, f.ether_shost),
          KV("destination-mac-address", "%02x (%s)", << >>,
             f.ether_dhost \o (IF f.ether_dhost = BroadcastMac THEN " broadcast" ELSE " unicast")),
          KV("offered-ipv4-address", "%u.%u.%u.%u", <<f.yiaddr>>, "") >>
    \o (IF f.siaddr # 0
        THEN << KV("next-server-ipv4-address", "%u.%u.%u.%u", <<f.siaddr>>, "") >> ELSE << >>)
    \o (IF f.giaddr # 0
        THEN << KV("relay-agent-ipv4-address", "%u.%u.%u.%u", <<f.giaddr>>, "") >> ELSE << >>)
    \o (IF f.file # "" THEN << KV("boot-file-name", "\"%s\"", << >>, f.file) >> ELSE << >>)

\* every key/value node dhcp_input asks for, in program order
Calls(f) ==
    LET responses == ResponseCalls(f)
        options == OptionCalls[f.vend]
    IN  [i \in 1 .. Len(responses) |-> [list |-> "response", kv |-> responses[i]]]
        \o [i \in 1 .. Len(options) |-> [list |-> "option", kv |-> options[i]]]

(***************************************************************************)
(* The response registry (dhcp_server_response_list).                      *)
(***************************************************************************)
add_node_to_list_head(list, node) == <<node>> \o list

add_node_to_list_tail(list, node) == Append(list, node)

find_by_ip_only(list, ip, mac) ==
    IF \E i \in 1 .. Len(list) : list[i].server_ipv4_address = ip
    THEN CHOOSE i \in 1 .. Len(list) :
            /\ list[i].server_ipv4_address = ip
            /\ \A j \in 1 .. (i - 1) : list[j].server_ipv4_address # ip
    ELSE 0

\* position of the first record with this IPv4 and MAC address, 0 for NULL
find_dhcp_server_data(list, ip, mac) ==
    IF \E i \in 1 .. Len(list) :
          list[i].server_ipv4_address = ip /\ list[i].server_mac_address = mac
    THEN CHOOSE i \in 1 .. Len(list) :
            /\ list[i].server_ipv4_address = ip /\ list[i].server_mac_address = mac
            /\ \A j \in 1 .. (i - 1) :
                  ~(list[j].server_ipv4_address = ip /\ list[j].server_mac_address = mac)
    ELSE 0

\* the record is stamped with gettimeofday(), here the reading now
create_dhcp_server_data(list, ip, mac, now) ==
    add_node_to_list_tail(list,
        [ stamp |-> now, server_ipv4_address |-> ip, server_mac_address |-> mac,
          dhcp_response |-> << >>, dhcp_option |-> << >> ])

add_dhcp_response(list, i, kv) ==
    [list EXCEPT ![i].dhcp_response = add_node_to_list_tail(@, kv)]

add_dhcp_option(list, i, kv) ==
    [list EXCEPT ![i].dhcp_option = add_node_to_list_tail(@, kv)]

\* the record with this address pair (the pointer create_dhcp_server_data
\* returns)
RecordAt(list, ip, mac) ==
    CHOOSE i \in 1 .. Len(list) :
        list[i].server_ipv4_address = ip /\ list[i].server_mac_address = mac

\* calls[from .. upto] applied to record i; a call whose allocation fails
\* (create_kv_node returns NULL) adds nothing
RECURSIVE ApplyCalls(_, _, _, _, _, _)
ApplyCalls(list, i, calls, from, upto, oom) ==
    IF from > upto THEN list
    ELSE LET c == calls[from]
             next == IF from \in oom THEN list
                     ELSE IF c.list = "response" THEN add_dhcp_response(list, i, c.kv)
                     ELSE add_dhcp_option(list, i, c.kv)
         IN  ApplyCalls(next, i, calls, from + 1, upto, oom)

(***************************************************************************)
(* The receive path. st is the part of the program state a callback can    *)
(* change: [list, count, brk] for dhcp_server_response_list,               *)
(* opt_max_response_count and the break flag pcap_breakloop sets.          *)
(***************************************************************************)
dhcp_server_port == DEFAULT_BOOTP_SERVER_PORT

max_responses_never_break(st) ==
    IF st.count > 0 THEN [st EXCEPT !.count = st.count - 1] ELSE st

max_responses_break_always(st) == [st EXCEPT !.brk = TRUE]

\* the end of dhcp_input: count the response, break the loop at zero
max_responses_step(st) ==
    IF st.count > 0
    THEN [st EXCEPT !.count = st.count - 1, !.brk = (st.count - 1 = 0)]
    ELSE st

duplicate_response_restamp(st, i, now) ==
    [st EXCEPT !.list = [st.list EXCEPT ![i].stamp = now]]

duplicate_response_counted(st, i, now) == max_responses_step(st)

\* a response of a server already recorded is ignored
duplicate_response(st, i, now) == st

\* the acceptance test at the head of dhcp_input
IsOfferForUs(f, xid) ==
    ~( f.opcode # BOOTREPLY \/ f.magic_cookie # DHCP_MAGIC_COOKIE \/ f.xid # xid
       \/ get_dhcp_message_type(f.vend) # MESSAGE_TYPE_OFFER )

\* dhcp_input up to and including the first upto key/value calls
RecordResponse(list, f, now, oom, upto) ==
    LET created == create_dhcp_server_data(list, f.ip_src, f.ether_shost, now)
    IN  ApplyCalls(created, RecordAt(created, f.ip_src, f.ether_shost),
                   Calls(f), 1, upto, oom)

dhcp_input(st, f, xid, now, oom) ==
    IF ~IsOfferForUs(f, xid) THEN st
    ELSE LET server_data == find_dhcp_server_data(st.list, f.ip_src, f.ether_shost)
         IN  IF server_data # 0 THEN duplicate_response(st, server_data, now)
             ELSE IF 0 \in oom THEN st
             ELSE max_responses_step(
                     [st EXCEPT !.list = RecordResponse(st.list, f, now, oom,
                                                        Len(Calls(f)))])

\* what dhcp_input writes to stderr for a frame that passed its acceptance
\* test: the bell, then the message of the branch it returns from
dhcp_input_stderr(st, f, oom, audible, quiet) ==
    (IF audible THEN << "BEL" >> ELSE << >>)
    \o (IF find_dhcp_server_data(st.list, f.ip_src, f.ether_shost) # 0
        THEN (IF ~quiet THEN << "Duplicate response from DHCP server" >> ELSE << >>)
        ELSE IF 0 \in oom
        THEN (IF ~quiet THEN << "Not enough memory to record response" >> ELSE << >>)
        ELSE << >>)

\* the UDP checksum as udp_input computes it: 0 when none was given or
\* when it verifies
UdpChecksum(f) == IF f.uh_sum = "zero" \/ f.uh_sum = "valid" THEN 0 ELSE 1

udp_input_unverified(st, f, xid, now, oom, ignore_checksums) ==
    IF f.uh_sport = dhcp_server_port THEN dhcp_input(st, f, xid, now, oom) ELSE st

udp_input(st, f, xid, now, oom, ignore_checksums) ==
    IF (ignore_checksums \/ UdpChecksum(f) = 0) /\ f.uh_sport = dhcp_server_port
    THEN dhcp_input(st, f, xid, now, oom)
    ELSE st

ip_input(st, f, xid, now, oom, ignore_checksums) ==
    IF (ignore_checksums \/ f.ip_sum_ok) /\ f.ip_p = IPPROTO_UDP
    THEN udp_input(st, f, xid, now, oom, ignore_checksums)
    ELSE st

ether_input(st, f, xid, now, oom, ignore_checksums) ==
    IF f.ether_type = ETHERTYPE_IP
       /\ (f.ether_dhost = ClientMac \/ f.ether_dhost = BroadcastMac)
    THEN ip_input(st, f, xid, now, oom, ignore_checksums)
    ELSE st

(***************************************************************************)
(* The transmit path: the lengths each layer computes.                     *)
(***************************************************************************)
fill_dhcp_option(len) == len + 2

fill_dhcp_discover_options(mtu) ==
    LET len == fill_dhcp_option(1) + fill_dhcp_option(2)
               + fill_dhcp_option(SizeofParameterReqList) + fill_dhcp_option(0)
    IN  IF len % 2 # 0 THEN len + 1 ELSE len

dhcp_output(len) == len + SizeofBootp

udp_output(len) == (IF len % 2 # 0 THEN len + 1 ELSE len) + SizeofUdphdr

ip_output(len) == len + SizeofIp

\* the length handed to pcap_inject
ether_output(len) == len + SizeofEtherHeader

\* dhcp_discover: the frame built, by its lengths and the BOOTP fields set
dhcp_discover(mac, mtu, xid, use_broadcast) ==
    LET len0 == dhcp_output(fill_dhcp_discover_options(mtu))
        len1 == IF SizeofIp + SizeofUdphdr + len0 < MinDhcpMessage
                THEN MinDhcpMessage - (SizeofIp + SizeofUdphdr)
                ELSE len0
        ulen == udp_output(len1)
        iplen == ip_output(ulen)
    IN  [ chaddr |-> mac, xid |-> xid,
          flags |-> IF use_broadcast THEN 32768 ELSE 0,
          max_message_size |-> mtu,
          uh_ulen |-> ulen, ip_len |-> iplen,
          asserts_hold |-> /\ 0 < mtu /\ mtu < 65536
                           /\ iplen <= SizeofPacket /\ iplen >= MinDhcpMessage,
          frame_len |-> ether_output(iplen) ]

(***************************************************************************)
(* The Internet checksum and the headers it is computed over, octet by     *)
(* octet. Memory is a sequence of octets; a uint16_t read from it is taken *)
(* in the byte order of a little-endian host.                              *)
(***************************************************************************)
\* *w for the 16 bit word at the C offset pos
Word(addr, pos) == addr[pos + 1] + 256 * addr[pos + 2]

\* what the while loop of in_cksum and the step for an odd last octet add
\* up over the nleft octets from offset pos on: every 16 bit word, and a
\* last octet on its own. The words are added half by half, which leaves
\* the sum as it is and keeps the evaluation shallow for a whole packet
RECURSIVE SumWords(_, _, _)
SumWords(addr, pos, nleft) ==
    IF nleft > 2
    THEN LET half == 2 * ((nleft + 2) \div 4)
         IN  SumWords(addr, pos, half) + SumWords(addr, pos + half, nleft - half)
    ELSE IF nleft = 2 THEN Word(addr, pos)
    ELSE IF nleft = 1 THEN addr[pos + 1]
    ELSE 0

\* the folded sum without the final complement
in_cksum_uncomplemented(addr, nleft) ==
    LET sum0 == SumWords(addr, 0, nleft)
        sum1 == (sum0 \div 65536) + (sum0 % 65536)
    IN  (sum1 + (sum1 \div 65536)) % 65536

\* in_cksum: the sum, the carries folded in twice, the complement
\* truncated to 16 bits
in_cksum(addr, nleft) ==
    LET sum0 == SumWords(addr, 0, nleft)
        sum1 == (sum0 \div 65536) + (sum0 % 65536)
        sum2 == sum1 + (sum1 \div 65536)
    IN  65535 - (sum2 % 65536)

\* a uint16_t stored at the C offset pos
StoreWord(addr, pos, w) ==
    [addr EXCEPT ![pos + 1] = w % 256, ![pos + 2] = w \div 256]

\* htons(n) as it lies in memory
Htons(n) == << n \div 256, n % 256 >>

\* udp_output: the pseudo header laid over the IP header, the UDP header
\* and the datagram, with the checksum stored
udp_output_octets(src_address, dst_address, payload) ==
    LET data == IF Len(payload) % 2 # 0 THEN payload \o <<0>> ELSE payload
        len == Len(data) + SizeofUdphdr
        pseudo == <<0, 0, 0, 0, 0, 0, 0, 0, 0, IPPROTO_UDP>> \o Htons(len)
                  \o src_address \o dst_address
        header == Htons(DEFAULT_BOOTP_CLIENT_PORT) \o Htons(DEFAULT_BOOTP_SERVER_PORT)
                  \o Htons(len) \o <<0, 0>>
        all == pseudo \o header \o data
    IN  StoreWord(all, SizeofIp + 6, in_cksum(all, SizeofIp + len))

\* ip_output: the IP header written over the pseudo header, with its
\* checksum stored (0x45, TOS 0x10, ip_id 0xffff, TTL 16)
ip_output_octets(packet, src_address, dst_address) ==
    LET len == Len(packet)
        header == <<69, 16>> \o Htons(len) \o <<255, 255, 0, 0, 16, IPPROTO_UDP, 0, 0>>
                  \o src_address \o dst_address
    IN  StoreWord(header, 10, in_cksum(header, SizeofIp))
        \o SubSeq(packet, SizeofIp + 1, len)

\* ip_input: the checksum over the IP header
ip_input_checksum(packet) == in_cksum(packet, SizeofIp)

\* udp_input: 0 when no checksum was given, else the checksum over the
\* pseudo header made of the IP header and over the datagram
udp_input_checksum(packet) ==
    LET uh_sum == Word(packet, SizeofIp + 6)
        uh_ulen == 256 * packet[SizeofIp + 5] + packet[SizeofIp + 6]
        pseudo == [i \in 1 .. Len(packet) |->
                      IF i <= 9 THEN 0
                      ELSE IF i = 11 THEN packet[SizeofIp + 5]
                      ELSE IF i = 12 THEN packet[SizeofIp + 6]
                      ELSE packet[i]]
    IN  IF uh_sum # 0 THEN in_cksum(pseudo, SizeofIp + uh_ulen) ELSE 0

(***************************************************************************)
(* main.                                                                   *)
(***************************************************************************)
alarm_handler_returns(at) == at

\* alarm_signal_handler: longjmp to the setjmp in main, which then skips
\* the capture loop
alarm_signal_handler(at) == "after_setjmp"

discover_result_ignored(inject_result) == "arm"

\* main after dhcp_discover: a negative result ends the run
after_discover(inject_result) == IF inject_result < 0 THEN "exit" ELSE "arm"

exit_status_ignores_min(num_responses_received, min_response_count) == EXIT_SUCCESS

\* the end of main
exit_status(num_responses_received, min_response_count) ==
    IF min_response_count > 0 /\ num_responses_received < min_response_count
    THEN EXIT_FAILURE
    ELSE EXIT_SUCCESS

\* what print_dhcp_server_data prints for one record
RenderResponder(data) ==
    [ time_received |-> data.stamp,
      lines |-> [i \in 1 .. Len(data.dhcp_response) |->
                    <<data.dhcp_response[i].key, data.dhcp_response[i].value>>]
                \o [i \in 1 .. Len(data.dhcp_option) |->
                    <<"option-" \o data.dhcp_option[i].key, data.dhcp_option[i].value>>] ]

(***************************************************************************)
(* What the claims speak of, independently of the code above.              *)
(***************************************************************************)
\* a dhcp-message-type option with value OFFER found by the TLV parse
\* (PAD skipped, END stops, type, length and value inside the area)
RECURSIVE HasOfferOptionFrom(_, _)
HasOfferOptionFrom(v, pos) ==
    IF pos >= Len(v) THEN FALSE
    ELSE IF At(v, pos) = OPTION_TYPE_PAD THEN HasOfferOptionFrom(v, pos + 1)
    ELSE IF At(v, pos) = OPTION_TYPE_END \/ pos + 1 >= Len(v) THEN FALSE
    ELSE LET len == At(v, pos + 1)
         IN  IF pos + 2 + len > Len(v) THEN FALSE
             ELSE IF At(v, pos) = OPTION_TYPE_DHCP_MESSAGE_TYPE /\ len >= 1
                     /\ At(v, pos + 2) = MESSAGE_TYPE_OFFER THEN TRUE
             ELSE HasOfferOptionFrom(v, pos + 2 + len)

\* the frame fails one of the acceptance gates
GateFails(f, xid) ==
    \/ f.ether_type # ETHERTYPE_IP
    \/ f.ether_dhost \notin {ClientMac, BroadcastMac}
    \/ f.ip_p # IPPROTO_UDP
    \/ f.uh_sport # DEFAULT_BOOTP_SERVER_PORT
    \/ f.opcode # BOOTREPLY
    \/ f.magic_cookie # DHCP_MAGIC_COOKIE
    \/ f.xid # xid
    \/ ~HasOfferOptionFrom(f.vend, 0)

\* the frame passes every test between ether_input and the registry
Accepted(f, xid, ignore_checksums) ==
    /\ f.ether_type = ETHERTYPE_IP
    /\ f.ether_dhost \in {ClientMac, BroadcastMac}
    /\ (ignore_checksums \/ f.ip_sum_ok)
    /\ f.ip_p = IPPROTO_UDP
    /\ (ignore_checksums \/ f.uh_sum \in {"zero", "valid"})
    /\ f.uh_sport = dhcp_server_port
    /\ IsOfferForUs(f, xid)

Pairs(seq) == { <<seq[i].server_ipv4_address, seq[i].server_mac_address>> : i \in 1 .. Len(seq) }

(***************************************************************************)
(* State.                                                                  *)
(***************************************************************************)
VARIABLES
    pc,                         \* where main is
    opt_quiet, opt_min_response_count, opt_max_response_count, opt_timeout,
    opt_ignore_checksums, opt_broadcast,
    interface_mtu, transaction_id,
    dhcp_server_response_list,  \* the registry
    break_loop,                 \* pcap_breakloop was called
    alarm_remaining,            \* ticks until SIGALRM, -1: no alarm pending
    clock,                      \* wall clock
    discover,                   \* the frame handed to pcap_inject
    inject_count,               \* calls of pcap_inject
    stdout,                     \* the responders printed so far
    print_pos,                  \* print_dhcp_server_data's position
    result,                     \* exit status, -1 while running
    \* history of the run
    max_responses,              \* --max-responses as given
    recorded,                   \* first recorded OFFER of each pair, in order
    last,                       \* about the frame the callback handled last
    late_duplicate,             \* a duplicate came from a responder that is
                                \* not the newest one
    setup_ok, send_ok, loop_entered, loop_exit,
    \* a function of the program called on its own
    arg,                        \* the function and its arguments
    ret                         \* what it returned, NoCall before the call

vars == << pc, opt_quiet, opt_min_response_count, opt_max_response_count,
           opt_timeout, opt_ignore_checksums, opt_broadcast, interface_mtu,
           transaction_id, dhcp_server_response_list, break_loop,
           alarm_remaining, clock, discover, inject_count, stdout, print_pos,
           result, max_responses, recorded, last, late_duplicate,
           setup_ok, send_ok,
           loop_entered, loop_exit, arg, ret >>

flags == << opt_quiet, opt_min_response_count, opt_timeout, opt_ignore_checksums,
            opt_broadcast, max_responses >>
setup_vars == << interface_mtu, transaction_id, setup_ok >>
send_vars == << discover, inject_count, send_ok >>
out_vars == << stdout, print_pos, result >>
history_vars == << recorded, last, late_duplicate >>
input_vars == << dhcp_server_response_list, opt_max_response_count, break_loop,
                 history_vars >>

call_vars == << arg, ret >>

NoCall == [fn |-> "none"]

NoLast == [gate_failed |-> FALSE, duplicate |-> FALSE, captured_at |-> -1]

InitCommon ==
    /\ \E given \in CommandLines :
         /\ opt_quiet = given.quiet
         /\ opt_min_response_count = given.min
         /\ opt_max_response_count = given.max
         /\ max_responses = given.max
         /\ opt_timeout = given.timeout
         /\ opt_ignore_checksums = given.ignore_checksums
    /\ dhcp_server_response_list = << >>
    /\ break_loop = FALSE
    /\ alarm_remaining = -1
    /\ clock = 0
    /\ discover = NoFrame
    /\ inject_count = 0
    /\ stdout = << >>
    /\ print_pos = 1
    /\ result = -1
    /\ recorded = << >>
    /\ last = NoLast
    /\ late_duplicate = FALSE
    /\ send_ok = FALSE
    /\ loop_entered = FALSE
    /\ loop_exit = "none"
    /\ arg = NoCall
    /\ ret = NoCall

\* main after the command line was read
Init ==
    /\ InitCommon
    /\ pc = "setup"
    /\ opt_broadcast = FALSE
    /\ interface_mtu = 0
    /\ transaction_id = 0
    /\ setup_ok = FALSE

\* main before dhcp_discover, for every MTU the interface may report
InitDiscover ==
    /\ InitCommon
    /\ pc = "send"
    /\ opt_broadcast \in BOOLEAN
    /\ interface_mtu \in DiscoverMtus
    /\ transaction_id \in RandValues
    /\ setup_ok = TRUE

(***************************************************************************)
(* Actions.                                                                *)
(***************************************************************************)
\* pcap_lookupdev, get_mac_address_and_mtu, pcap_open_live, the filter and
\* the transaction ID; any of the first four may fail
Setup ==
    /\ pc = "setup"
    /\ \E ok \in BOOLEAN :
         IF ok
         THEN /\ pc' = "send"
              /\ interface_mtu' \in RunMtus
              /\ transaction_id' \in RandValues
              /\ setup_ok' = TRUE
              /\ result' = result
         ELSE /\ pc' = "exit"
              /\ result' = EXIT_FAILURE
              /\ UNCHANGED setup_vars
    /\ UNCHANGED << call_vars, flags, send_vars, input_vars, stdout, print_pos,
                    alarm_remaining, clock, loop_entered, loop_exit >>

\* dhcp_discover and the test of its result; pcap_inject returns the
\* number of octets sent or -1
Discover ==
    /\ pc = "send"
    /\ LET frame == dhcp_discover(ClientMac, interface_mtu, transaction_id, opt_broadcast)
       IN  \E inject_result \in {-1, frame.frame_len} :
             /\ discover' = frame
             /\ inject_count' = inject_count + 1
             /\ send_ok' = (inject_result >= 0)
             /\ pc' = after_discover(inject_result)
             /\ result' = IF after_discover(inject_result) = "exit"
                          THEN EXIT_FAILURE ELSE result
    /\ UNCHANGED << call_vars, flags, setup_vars, input_vars, stdout, print_pos,
                    alarm_remaining, clock, loop_entered, loop_exit >>

\* setjmp, signal, alarm and the call of pcap_loop
Arm ==
    /\ pc = "arm"
    /\ pc' = "loop"
    /\ alarm_remaining' = IF opt_timeout > 0 THEN opt_timeout ELSE -1
    /\ loop_entered' = TRUE
    /\ UNCHANGED << call_vars, flags, setup_vars, send_vars, input_vars, out_vars,
                    clock, loop_exit >>

CaptureTimes == { t \in {clock - 1, clock} : t >= 0 }

State == [list |-> dhcp_server_response_list, count |-> opt_max_response_count,
          brk |-> break_loop]

\* the frame is the first of its server that is accepted and has its
\* record allocated
IsNew(f, oom) ==
    /\ Accepted(f, transaction_id, opt_ignore_checksums)
    /\ <<f.ip_src, f.ether_shost>> \notin Pairs(recorded)
    /\ 0 \notin oom

\* the capture time and the allocations make a difference for a new
\* responder only
Relevant(f, captured_at, oom) ==
    IsNew(f, oom) \/ (captured_at = clock /\ oom = {})

\* the key/value nodes the first upto calls of dhcp_input append
Appended(f, oom, upto) ==
    LET made == SelectSeq([i \in 1 .. upto |-> i], LAMBDA i : i \notin oom)
        calls == Calls(f)
    IN  [k \in 1 .. Len(made) |-> calls[made[k]].kv]

IsDuplicate(f) ==
    /\ Accepted(f, transaction_id, opt_ignore_checksums)
    /\ <<f.ip_src, f.ether_shost>> \in Pairs(recorded)

History(f, captured_at, oom, upto) ==
    /\ last' = [gate_failed |-> GateFails(f, transaction_id),
                duplicate |-> IsDuplicate(f),
                captured_at |-> IF IsNew(f, oom) THEN captured_at ELSE -1]
    /\ recorded' = IF IsNew(f, oom)
                   THEN Append(recorded,
                            [server_ipv4_address |-> f.ip_src,
                             server_mac_address |-> f.ether_shost,
                             processed_at |-> clock,
                             appended |-> Appended(f, oom, upto)])
                   ELSE recorded
    /\ late_duplicate' =
          (late_duplicate
           \/ (IsDuplicate(f)
               /\ <<f.ip_src, f.ether_shost>> # <<recorded[Len(recorded)].server_ipv4_address,
                                                  recorded[Len(recorded)].server_mac_address>>))

\* pcap_loop calls ether_input with a captured frame
EtherInput ==
    /\ pc = "loop"
    /\ ~break_loop
    /\ \E f \in Frames(transaction_id), captured_at \in CaptureTimes, oom \in OomChoices :
         /\ Relevant(f, captured_at, oom)
         /\ LET st == ether_input(State, f, transaction_id, clock, oom, opt_ignore_checksums)
            IN  /\ dhcp_server_response_list' = st.list
                /\ opt_max_response_count' = st.count
                /\ break_loop' = st.brk
         /\ History(f, captured_at, oom, Len(Calls(f)))
    /\ UNCHANGED << pc, call_vars, flags, setup_vars, send_vars, out_vars, alarm_remaining,
                    clock, loop_entered, loop_exit >>

\* pcap_loop returns after pcap_breakloop
PcapLoopBreak ==
    /\ pc = "loop"
    /\ break_loop
    /\ pc' = "print"
    /\ print_pos' = 1
    /\ break_loop' = FALSE
    /\ loop_exit' = "break"
    /\ last' = NoLast
    /\ UNCHANGED << call_vars, flags, setup_vars, send_vars, stdout, result,
                    dhcp_server_response_list, opt_max_response_count,
                    recorded, late_duplicate, alarm_remaining, clock, loop_entered >>

\* time passes
Tick ==
    /\ pc \in {"loop", "print", "count"}
    /\ \/ alarm_remaining > 0 /\ alarm_remaining' = alarm_remaining - 1
       \/ opt_timeout = 0 /\ clock < MaxClock /\ alarm_remaining' = alarm_remaining
    /\ clock' = clock + 1
    /\ UNCHANGED << pc, call_vars, flags, setup_vars, send_vars, input_vars, out_vars,
                    loop_entered, loop_exit >>

\* SIGALRM while main is in pcap_loop but not in the callback, or past it
Alarm ==
    /\ pc \in {"loop", "print", "count"}
    /\ alarm_remaining = 0
    /\ alarm_remaining' = -1
    /\ LET to == alarm_signal_handler(pc)
       IN  /\ pc' = IF to = "after_setjmp" THEN "print" ELSE to
           /\ print_pos' = IF to = "after_setjmp" THEN 1 ELSE print_pos
           /\ loop_exit' = IF to = "after_setjmp" /\ pc = "loop" THEN "alarm" ELSE loop_exit
           /\ last' = IF to = "after_setjmp" THEN NoLast ELSE last
    /\ UNCHANGED << call_vars, flags, setup_vars, send_vars, stdout, result,
                    dhcp_server_response_list, opt_max_response_count, break_loop,
                    recorded, late_duplicate, clock, loop_entered >>

\* where the signal may cut a callback that makes n additions short
InterruptPoints(n) == {0, n \div 2, n}

\* SIGALRM while dhcp_input records a new responder: the longjmp leaves
\* the callback after the record and upto of its key/value nodes were added
AlarmDuringInput ==
    /\ pc = "loop"
    /\ ~break_loop
    /\ alarm_remaining = 0
    /\ \E f \in Frames(transaction_id), captured_at \in CaptureTimes, oom \in OomChoices :
         /\ IsNew(f, oom)
         /\ ether_input(State, f, transaction_id, clock, oom, opt_ignore_checksums).list
               # dhcp_server_response_list
         /\ \E upto \in InterruptPoints(Len(Calls(f))) :
              /\ dhcp_server_response_list' =
                     RecordResponse(dhcp_server_response_list, f, clock, oom, upto)
              /\ History(f, captured_at, oom, upto)
    /\ alarm_remaining' = -1
    /\ LET to == alarm_signal_handler(pc)
       IN  /\ pc' = IF to = "after_setjmp" THEN "print" ELSE to
           /\ loop_exit' = IF to = "after_setjmp" THEN "alarm" ELSE loop_exit
    /\ print_pos' = 1
    /\ UNCHANGED << call_vars, flags, setup_vars, send_vars, stdout, result,
                    opt_max_response_count, break_loop, clock, loop_entered >>

\* print_dhcp_server_data: one round of its loop
PrintResponder ==
    /\ pc = "print"
    /\ ~opt_quiet
    /\ print_pos <= Len(dhcp_server_response_list)
    /\ stdout' = Append(stdout, RenderResponder(dhcp_server_response_list[print_pos]))
    /\ print_pos' = print_pos + 1
    /\ UNCHANGED << pc, call_vars, flags, setup_vars, send_vars, input_vars, result,
                    alarm_remaining, clock, loop_entered, loop_exit >>

\* print_dhcp_server_data returns, or is not called under --quiet
PrintDone ==
    /\ pc = "print"
    /\ opt_quiet \/ print_pos > Len(dhcp_server_response_list)
    /\ pc' = "count"
    /\ UNCHANGED << call_vars, flags, setup_vars, send_vars, input_vars, out_vars,
                    alarm_remaining, clock, loop_entered, loop_exit >>

\* the --min-responses check and the return from main
CheckMin ==
    /\ pc = "count"
    /\ result' = exit_status(Len(dhcp_server_response_list), opt_min_response_count)
    /\ pc' = "exit"
    /\ UNCHANGED << call_vars, flags, setup_vars, send_vars, input_vars, stdout, print_pos,
                    alarm_remaining, clock, loop_entered, loop_exit >>

Next ==
    \/ Setup \/ Discover \/ Arm \/ EtherInput \/ PcapLoopBreak \/ Tick
    \/ Alarm \/ AlarmDuringInput \/ PrintResponder \/ PrintDone \/ CheckMin

Spec == Init /\ [][Next]_vars

\* the send path alone
SpecDiscover == InitDiscover /\ [][Discover]_vars

(***************************************************************************)
(* Functions called on their own: main does not run.                       *)
(***************************************************************************)
Standalone ==
    /\ pc = "call"
    /\ opt_quiet = FALSE /\ opt_min_response_count = 0
    /\ opt_max_response_count = 0 /\ max_responses = 0
    /\ opt_timeout = 0 /\ opt_ignore_checksums = FALSE /\ opt_broadcast = FALSE
    /\ interface_mtu = 0 /\ transaction_id = 0
    /\ dhcp_server_response_list = << >>
    /\ break_loop = FALSE /\ alarm_remaining = -1 /\ clock = 0
    /\ discover = NoFrame /\ inject_count = 0
    /\ stdout = << >> /\ print_pos = 1 /\ result = -1
    /\ recorded = << >> /\ last = NoLast /\ late_duplicate = FALSE
    /\ setup_ok = FALSE /\ send_ok = FALSE
    /\ loop_entered = FALSE /\ loop_exit = "none"
    /\ ret = NoCall

main_vars == << pc, flags, setup_vars, send_vars, out_vars, input_vars,
               alarm_remaining, clock, loop_entered, loop_exit >>

\* sequences over S of the lengths lo .. hi
SeqsOf(S, lo, hi) == UNION { [1 .. n -> S] : n \in lo .. hi }

\* octets of a checksummed buffer, addresses, datagrams
CksumOctets == {0, 1, 128, 255}
CksumAddresses == { <<0, 0, 0, 0>>, <<255, 255, 255, 255>>, <<192, 168, 1, 2>> }

InitCksum ==
    /\ Standalone
    /\ \/ \E buffer \in SeqsOf(CksumOctets, 2, MaxCksumLen) :
            \E field \in { i \in 0 .. (Len(buffer) - 2) : i % 2 = 0 } :
               arg = [fn |-> "in_cksum", buffer |-> StoreWord(buffer, field, 0),
                      field |-> field]
       \/ \E src \in CksumAddresses, dst \in CksumAddresses :
            \E payload \in SeqsOf(CksumOctets, 0, MaxCksumLen - 2) :
               arg = [fn |-> "udp_output", src |-> src, dst |-> dst,
                      payload |-> payload]

\* the checksum of a buffer is stored in its checksum field and the
\* checksum is taken again
CksumRoundTrip ==
    /\ arg.fn = "in_cksum"
    /\ ret = NoCall
    /\ LET sum == in_cksum(arg.buffer, Len(arg.buffer))
           stored == StoreWord(arg.buffer, arg.field, sum)
       IN  ret' = [sum |-> sum, stored |-> stored,
                   again |-> in_cksum(stored, Len(stored))]
    /\ UNCHANGED << main_vars, arg >>

\* udp_output and ip_output build a packet, ip_input and udp_input take
\* its checksums
CksumHeaders ==
    /\ arg.fn = "udp_output"
    /\ ret = NoCall
    /\ LET packet == ip_output_octets(
                        udp_output_octets(arg.src, arg.dst, arg.payload),
                        arg.src, arg.dst)
       IN  ret' = [packet |-> packet,
                   uh_sum |-> Word(packet, SizeofIp + 6),
                   ip_checksum |-> ip_input_checksum(packet),
                   udp_checksum |-> udp_input_checksum(packet)]
    /\ UNCHANGED << main_vars, arg >>

SpecCksum == InitCksum /\ [][CksumRoundTrip \/ CksumHeaders]_vars

\* a captured frame with any state of its two checksums
InitInput ==
    /\ Standalone
    /\ \E f \in Frames(CHOOSE x \in RandValues : TRUE), ip_sum_ok \in BOOLEAN,
          uh_sum \in {"valid", "invalid", "zero"}, ignore_checksums \in BOOLEAN :
         arg = [fn |-> "ether_input",
                frame |-> [f EXCEPT !.ip_sum_ok = ip_sum_ok, !.uh_sum = uh_sum],
                transaction_id |-> CHOOSE x \in RandValues : TRUE,
                ignore_checksums |-> ignore_checksums]

\* ether_input called with the frame while the registry is empty
InputCall ==
    /\ arg.fn = "ether_input"
    /\ ret = NoCall
    /\ ret' = ether_input([list |-> << >>, count |-> 0, brk |-> FALSE], arg.frame,
                          arg.transaction_id, 0, {}, arg.ignore_checksums)
    /\ UNCHANGED << main_vars, arg >>

SpecInput == InitInput /\ [][InputCall]_vars

\* options a server may put into the options area: well-formed ones and
\* ones with a length or payload the decoder has to cope with
DecodeOptions ==
    { <<53, 1, 2>>,
      <<54, 4, 10, 0, 0, 1>>,
      <<1, 4, 255, 255, 255, 0>>,
      <<51, 4, 0, 1, 81, 128>>,
      <<26, 2, 5, 220>>,
      <<26, 0>>,
      <<60, 2, 7, 7>>,
      <<119, 3, 1, 97, 0>>,
      <<119, 4, 1, 98, 192, 0>>,
      <<119, 2, 128, 0>>,
      <<119, 13, 7, 101, 120, 97, 109, 112, 108, 101, 3, 99, 111, 109, 0>>,
      <<119, 6, 3, 115, 117, 98, 192, 0>>,
      <<121, 5, 0, 192, 168, 0, 1>>,
      <<121, 8, 24, 172, 16, 0, 172, 16, 0, 1>>,
      <<121, 3, 0, 192, 168>>,
      <<121, 1, 33>>,
      <<1, 200, 255, 255>> }

\* what memory that was never written, or lies behind the frame, may hold
JunkOctets == {0, 165}

RECURSIVE Flatten(_)
Flatten(seqs) == IF seqs = << >> THEN << >> ELSE Head(seqs) \o Flatten(Tail(seqs))

\* up to MaxOptions different options in any order
OptionLists ==
    { o \in SeqsOf(DecodeOptions, 1, MaxOptions) :
        \A i, j \in 1 .. Len(o) : i # j => o[i] # o[j] }

\* a response dhcp_input accepts as an OFFER: its options area holds the
\* options, with or without the end marker
InitDecode ==
    /\ Standalone
    /\ \E options \in OptionLists, end \in { << >>, <<OPTION_TYPE_END>> } :
         LET vend == Flatten(options) \o end
         IN  /\ get_dhcp_message_type(vend) = MESSAGE_TYPE_OFFER
             /\ arg = [fn |-> "dhcp_input", options |-> options, vend |-> vend]

\* the TLV loop of dhcp_input runs over the options area; aggregate is
\* what fill_aggregate_buffer_from_option makes of the area for the domain
\* search option
DecodeCall ==
    /\ arg.fn = "dhcp_input"
    /\ ret = NoCall
    /\ \E junk \in JunkOctets :
         ret' = [junk |-> junk, options |-> OptionLoop(arg.vend, 0, << >>, {}, junk),
                 aggregate |-> fill_aggregate_buffer_from_option(
                                   arg.vend, OPTION_TYPE_DOMAIN_SEARCH, junk)]
    /\ UNCHANGED << main_vars, arg >>

SpecDecode == InitDecode /\ [][DecodeCall]_vars

\* labels of domain names: "a" and "bc"
DomainLabels == { <<97>>, <<98, 99>> }

\* lists of n name records of a domain search list. A record has its
\* labels and ends in the zero label (to is empty) or in a compression
\* pointer to the label to[2] of the earlier record to[1]
RECURSIVE NameRecords(_)
NameRecords(n) ==
    IF n = 0 THEN { << >> }
    ELSE LET full == { [labels |-> l, to |-> << >>] : l \in SeqsOf(DomainLabels, 1, 2) }
             compressed(s) ==
                 { r \in [labels : SeqsOf(DomainLabels, 0, 1),
                          to : (1 .. Len(s)) \X (1 .. 2)] :
                     r.to[2] <= Len(s[r.to[1]].labels) }
         IN  UNION { { Append(s, r) : r \in full \cup compressed(s) } :
                     s \in NameRecords(n - 1) }

\* a name of 253 characters (labels of 63, 63, 63 and 61 octets) followed
\* by five names that are a pointer to it
LongLabel(n) == [i \in 1 .. n |-> 97]

LongNames ==
    << [labels |-> <<LongLabel(63), LongLabel(63), LongLabel(63), LongLabel(61)>>,
        to |-> << >>] >>
    \o [i \in 1 .. 5 |-> [labels |-> << >>, to |-> <<1, 1>>]]

\* the RFC 1035 encoding of the records
EncodeLabels(labels) ==
    Flatten([i \in 1 .. Len(labels) |-> <<Len(labels[i])>> \o labels[i]])

EncodedSize(r) == Len(EncodeLabels(r.labels)) + (IF r.to = << >> THEN 1 ELSE 2)

RECURSIVE RecordOffset(_, _)
RecordOffset(s, j) == IF j = 1 THEN 0 ELSE RecordOffset(s, j - 1) + EncodedSize(s[j - 1])

LabelOffset(s, j, k) ==
    RecordOffset(s, j) + Len(EncodeLabels(SubSeq(s[j].labels, 1, k - 1)))

EncodeRecord(s, i) ==
    EncodeLabels(s[i].labels)
    \o (IF s[i].to = << >> THEN <<0>>
        ELSE LET offset == LabelOffset(s, s[i].to[1], s[i].to[2])
             IN  <<192 + (offset \div 256), offset % 256>>)

EncodeRecords(s) == Flatten([i \in 1 .. Len(s) |-> EncodeRecord(s, i)])

\* the labels of the name record i stands for, pointers followed
RECURSIVE ExpandedLabels(_, _)
ExpandedLabels(s, i) ==
    s[i].labels
    \o (IF s[i].to = << >> THEN << >>
        ELSE LET target == ExpandedLabels(s, s[i].to[1])
             IN  SubSeq(target, s[i].to[2], Len(target)))

\* seqs[1] sep seqs[2] sep ...
RECURSIVE Join(_, _)
Join(seqs, sep) ==
    IF seqs = << >> THEN << >>
    ELSE IF Len(seqs) = 1 THEN seqs[1]
    ELSE seqs[1] \o sep \o Join(Tail(seqs), sep)

\* the names of the list, dotted, separated by ", "
ExpectedSearch(s) ==
    Join([i \in 1 .. Len(s) |-> Join(ExpandedLabels(s, i), <<46>>)], <<44, 32>>)

InitDomain ==
    /\ Standalone
    /\ \E records \in { LongNames } \cup UNION { NameRecords(n) : n \in 1 .. MaxNames } :
         arg = [fn |-> "decode_domain_search", records |-> records,
                aggregate_buffer |-> EncodeRecords(records)]

\* decode_domain_search decodes the aggregated data
DomainCall ==
    /\ arg.fn = "decode_domain_search"
    /\ ret = NoCall
    /\ ret' = DomainSearchFrom(arg.aggregate_buffer, 0, << >>, SizeofTextBuffer)
    /\ UNCHANGED << main_vars, arg >>

SpecDomain == InitDomain /\ [][DomainCall]_vars

\* routes of a classless static route option: the prefix length, the
\* destination and the router
ClasslessRoutes ==
    { [p |-> 0, destination |-> <<0, 0, 0, 0>>, router |-> <<192, 168, 0, 1>>],
      [p |-> 1, destination |-> <<128, 0, 0, 0>>, router |-> <<10, 0, 0, 2>>],
      [p |-> 8, destination |-> <<10, 0, 0, 0>>, router |-> <<10, 0, 0, 1>>],
      [p |-> 16, destination |-> <<172, 16, 0, 0>>, router |-> <<172, 16, 0, 2>>],
      [p |-> 20, destination |-> <<172, 16, 16, 0>>, router |-> <<172, 16, 0, 3>>],
      [p |-> 24, destination |-> <<172, 16, 0, 0>>, router |-> <<172, 16, 0, 1>>],
      [p |-> 32, destination |-> <<10, 1, 2, 3>>, router |-> <<10, 0, 0, 1>>] }

\* the RFC 3442 encoding: the prefix length, the significant octets of the
\* destination, the router
EncodeRoutes(routes) ==
    Flatten([i \in 1 .. Len(routes) |->
                <<routes[i].p>>
                \o SubSeq(routes[i].destination, 1, (routes[i].p + 7) \div 8)
                \o routes[i].router])

InitRoute ==
    /\ Standalone
    /\ \E routes \in SeqsOf(ClasslessRoutes, 1, MaxRoutes) :
         arg = [fn |-> "decode_classless_static_route", routes |-> routes,
                payload |-> EncodeRoutes(routes)]

\* the classless static route case of dhcp_input with the payload in
\* option_data
RouteCall ==
    /\ arg.fn = "decode_classless_static_route"
    /\ ret = NoCall
    /\ LET option_length == Len(arg.payload)
           option_data == OptionData(arg.payload, 0, option_length, << >>, 0)
       IN  ret' = [decoded |-> decode_classless_static_route(option_data, option_length),
                   calls |-> DecodeOption(OPTION_TYPE_CLASSLESS_STATIC_ROUTE,
                                          option_length, option_data, << >>, 0).calls]
    /\ UNCHANGED << main_vars, arg >>

SpecRoute == InitRoute /\ [][RouteCall]_vars

\* durations around the changes of unit and of number, up to the largest
\* TLC can hold (2^31 - 1; a lease time has 32 bits)
Durations ==
    LET marks == { 0, 60, 120, 3600, 7200, 86400, 172800, 31536000,
                   2147483647 - MaxDurationDelta }
    IN  { s \in { m + d : m \in marks, d \in (0 - MaxDurationDelta) .. MaxDurationDelta } :
            s >= 0 }

\* the four octets of a 32 bit number in network byte order
Htonl(n) == << n \div 16777216, (n \div 65536) % 256, (n \div 256) % 256, n % 256 >>

InitSeconds ==
    /\ Standalone
    /\ \E seconds \in Durations :
         arg = [fn |-> "convert_seconds_to_readable_form", seconds |-> seconds]

\* the lease time case of dhcp_input with the duration in option_data
SecondsCall ==
    /\ arg.fn = "convert_seconds_to_readable_form"
    /\ ret = NoCall
    /\ LET form == convert_seconds_to_readable_form(arg.seconds)
           option_data == OptionData(Htonl(arg.seconds), 0, 4, << >>, 0)
       IN  ret' = [form |-> form, buffer |-> ReadableForm(form),
                   calls |-> DecodeOption(OPTION_TYPE_IP_ADDRESS_LEASE_TIME, 4,
                                          option_data, << >>, 0).calls]
    /\ UNCHANGED << main_vars, arg >>

SpecSeconds == InitSeconds /\ [][SecondsCall]_vars

\* frames of three servers, a retransmission being any of them again, and
\* frames the receive path rejects
RecordFrames ==
    LET xid == CHOOSE x \in RandValues : TRUE
        offer == BaseOffer(1, "aa:bb:cc:dd:ee:01", VendOfferSid, xid)
    IN  { BaseOffer(srv[1], srv[2], VendOfferSid, xid) : srv \in Servers }
        \cup { [offer EXCEPT !.xid = CHOOSE x \in Xids : x # xid],
               [offer EXCEPT !.uh_sum = "invalid"],
               [offer EXCEPT !.vend = VendAck] }

\* allocations of one dhcp_input call that fail: none, the responder
\* record, the third key/value node
RecordOom == { {}, {0}, {3} }

InitRecord ==
    /\ Standalone
    /\ \E audible \in BOOLEAN, quiet \in BOOLEAN :
         arg = [fn |-> "pcap_loop", audible |-> audible, quiet |-> quiet,
                transaction_id |-> CHOOSE x \in RandValues : TRUE]

\* pcap_loop hands one more frame to ether_input; ret keeps the registry
\* before and after the call, everything written to stderr and whether an
\* allocation has failed so far
RecordInput ==
    /\ arg.fn = "pcap_loop"
    /\ (IF ret = NoCall THEN 0 ELSE ret.delivered) < MaxDeliveries
    /\ \E f \in RecordFrames, oom \in RecordOom :
         LET before == IF ret = NoCall
                       THEN [list |-> << >>, count |-> 0, brk |-> FALSE] ELSE ret.st
             written == IF ret = NoCall THEN << >> ELSE ret.stderr
             delivered == IF ret = NoCall THEN 0 ELSE ret.delivered
             failed == IF ret = NoCall THEN FALSE ELSE ret.alloc_failed
         IN  ret' = [delivered |-> delivered + 1, frame |-> f, oom |-> oom,
                     alloc_failed |-> (failed \/ oom # {}),
                     before |-> before,
                     st |-> ether_input(before, f, arg.transaction_id, 0, oom, FALSE),
                     stderr |-> written
                         \o (IF Accepted(f, arg.transaction_id, FALSE)
                             THEN dhcp_input_stderr(before, f, oom, arg.audible, arg.quiet)
                             ELSE << >>)]
    /\ UNCHANGED << main_vars, arg >>

SpecRecord == InitRecord /\ [][RecordInput]_vars

\* a captured UDP datagram for the server port: the options area that was
\* captured, the octets its UDP length field claims beyond the captured
\* ones, and whether a UDP checksum is given
InitWire ==
    /\ Standalone
    /\ \E options \in OptionLists, extra \in 0 .. MaxExtra, uh_sum \in {"zero", "given"} :
         arg = [fn |-> "udp_input", vend |-> Flatten(options),
                uh_ulen |-> SizeofUdphdr + SizeofBootp + Len(Flatten(options)) + extra,
                uh_sum |-> uh_sum]

\* udp_input and dhcp_input: how far in_cksum reads from the start of the
\* IP header, how far the TLV loop reads from the start of the options
\* area. What lies behind the captured octets is junk; a checksum taken
\* over it may or may not verify
WireInput ==
    /\ arg.fn = "udp_input"
    /\ ret = NoCall
    /\ \E junk \in JunkOctets, verifies \in BOOLEAN :
         LET length == arg.uh_ulen - SizeofUdphdr
             vendor_options_length == length - SizeofBootp
             vendor_options == [i \in 1 .. vendor_options_length |->
                                   Octet(arg.vend, i - 1, junk)]
             checksum == IF arg.uh_sum = "given" /\ ~verifies THEN 1 ELSE 0
             is_offer == checksum = 0
                         /\ get_dhcp_message_type(vendor_options) = MESSAGE_TYPE_OFFER
         IN  /\ (arg.uh_sum = "zero" => verifies)
             /\ ret' = [captured |-> SizeofIp + SizeofUdphdr + SizeofBootp + Len(arg.vend),
                        checksum_end |-> IF arg.uh_sum = "given"
                                         THEN SizeofIp + arg.uh_ulen ELSE 0,
                        decoded |-> is_offer,
                        stops |-> is_offer
                                  /\ OptionLoop(vendor_options, 0, << >>, {}, junk).stops,
                        options_end |-> IF is_offer
                                        THEN ReadEndFrom(vendor_options, 0, 0) ELSE 0]
    /\ UNCHANGED << main_vars, arg >>

SpecWire == InitWire /\ [][WireInput]_vars

\* the options that have a length constraint, with every length up to
\* MaxOptionLength; the value octets are 1, 2, 3, ...
LengthOptions ==
    { OPTION_TYPE_SUBNET_MASK, OPTION_TYPE_GATEWAY, OPTION_TYPE_DNS,
      OPTION_TYPE_INTERFACE_MTU, OPTION_TYPE_NTP_SERVERS,
      OPTION_TYPE_IP_ADDRESS_LEASE_TIME, OPTION_TYPE_SERVER_IDENTIFIER,
      OPTION_TYPE_MAXIMUM_DHCP_MESSAGE_SIZE }

\* an OFFER with one such option behind the message type
InitLength ==
    /\ Standalone
    /\ \E option_type \in LengthOptions, option_length \in 0 .. MaxOptionLength :
         arg = [fn |-> "dhcp_input", option_type |-> option_type,
                option_length |-> option_length,
                vend |-> <<OPTION_TYPE_DHCP_MESSAGE_TYPE, 1, MESSAGE_TYPE_OFFER>>
                         \o <<option_type, option_length>>
                         \o [i \in 1 .. option_length |-> i]
                         \o <<OPTION_TYPE_END>>]

\* the TLV loop of dhcp_input runs over the options area
LengthCall ==
    /\ arg.fn = "dhcp_input"
    /\ ret = NoCall
    /\ \E junk \in JunkOctets :
         ret' = [junk |-> junk, options |-> OptionLoop(arg.vend, 0, << >>, {}, junk)]
    /\ UNCHANGED << main_vars, arg >>

SpecLength == InitLength /\ [][LengthCall]_vars

\* parameter_req_list of fill_dhcp_discover_options
parameter_req_list ==
    << 1, 3, 6, 15, 26, 28, 31, 33, 42, 44, 46, 47, 51, 53, 54, 55, 56, 57, 58,
       59, 95, 116, 119, 121, 252 >>

\* fill_dhcp_option: the code, the length and the data
fill_dhcp_option_octets(option_code, option_data) ==
    <<option_code, Len(option_data)>> \o option_data

\* fill_dhcp_discover_options: the options area of the DISCOVER, padded to
\* an even number of octets
fill_dhcp_discover_options_octets(mtu) ==
    LET vend == fill_dhcp_option_octets(OPTION_TYPE_DHCP_MESSAGE_TYPE,
                                        <<MESSAGE_TYPE_DISCOVER>>)
                \o fill_dhcp_option_octets(OPTION_TYPE_MAXIMUM_DHCP_MESSAGE_SIZE, Htons(mtu))
                \o fill_dhcp_option_octets(55, parameter_req_list)
                \o fill_dhcp_option_octets(OPTION_TYPE_END, << >>)
    IN  IF Len(vend) % 2 # 0 THEN vend \o <<OPTION_TYPE_PAD>> ELSE vend

\* dhcp_output: the BOOTP message in front of the options (opcode, htype,
\* hlen, hops, xid, secs, flags, the four addresses, chaddr, sname, file,
\* magic cookie)
dhcp_output_octets(mac, xid, use_broadcast, vend) ==
    << BOOTREQUEST, 1, Len(mac), 0 >> \o Htonl(xid) \o <<0, 0>>
    \o (IF use_broadcast THEN <<128, 0>> ELSE <<0, 0>>)
    \o [i \in 1 .. 16 |-> 0]
    \o mac \o [i \in 1 .. (16 - Len(mac)) |-> 0]
    \o [i \in 1 .. (64 + 128) |-> 0]
    \o Htonl(DHCP_MAGIC_COOKIE)
    \o vend

\* dhcp_discover: the packet from the IP header on, sent from 0.0.0.0 to
\* 255.255.255.255
dhcp_discover_octets(mac, mtu, xid, use_broadcast) ==
    LET message == dhcp_output_octets(mac, xid, use_broadcast,
                                      fill_dhcp_discover_options_octets(mtu))
        len == IF SizeofIp + SizeofUdphdr + Len(message) < MinDhcpMessage
               THEN MinDhcpMessage - (SizeofIp + SizeofUdphdr)
               ELSE Len(message)
        padded == message \o [i \in 1 .. (len - Len(message)) |-> 0]
    IN  ip_output_octets(
            udp_output_octets(<<0, 0, 0, 0>>, <<255, 255, 255, 255>>, padded),
            <<0, 0, 0, 0>>, <<255, 255, 255, 255>>)

\* MAC addresses, MTUs and transaction IDs of a DISCOVER: rand() returns
\* 0 .. 2^31 - 1, of which the ends and the values about 12272
TransmitMacs == { <<2, 17, 34, 51, 68, 85>>, <<0, 224, 76, 104, 0, 1>> }
TransmitMtus == {576, 1500, 9000}
TransmitXids == {0, 2147483647} \cup ((12272 - MaxXidDelta) .. (12272 + MaxXidDelta))

InitTransmit ==
    /\ Standalone
    /\ \E mac \in TransmitMacs, mtu \in TransmitMtus, xid \in TransmitXids,
          use_broadcast \in BOOLEAN :
         arg = [fn |-> "dhcp_discover", mac |-> mac, mtu |-> mtu, xid |-> xid,
                use_broadcast |-> use_broadcast]

\* dhcp_discover builds the packet; its UDP checksum field and what
\* ip_input and udp_input compute over the packet
TransmitCall ==
    /\ arg.fn = "dhcp_discover"
    /\ ret = NoCall
    /\ LET packet == dhcp_discover_octets(arg.mac, arg.mtu, arg.xid, arg.use_broadcast)
       IN  ret' = [len |-> Len(packet),
                   uh_sum |-> Word(packet, SizeofIp + 6),
                   ip_checksum |-> ip_input_checksum(packet),
                   udp_checksum |-> udp_input_checksum(packet)]
    /\ UNCHANGED << main_vars, arg >>

SpecTransmit == InitTransmit /\ [][TransmitCall]_vars

\* octets of an encoded domain name: the root marker, a label length, a
\* letter, and a compression pointer with the offsets 0 and 1 behind it
NameOctets == {0, 1, 97, 192}

\* every buffer of up to MaxNameLen such octets, and every start position
InitName ==
    /\ Standalone
    /\ \E input_buffer \in SeqsOf(NameOctets, 1, MaxNameLen) :
         \E input_pos \in 0 .. (Len(input_buffer) - 1) :
            arg = [fn |-> "decode_domain_name", input_buffer |-> input_buffer,
                   input_pos |-> input_pos]

\* decode_domain_name as decode_domain_search calls it
NameCall ==
    /\ arg.fn = "decode_domain_name"
    /\ ret = NoCall
    /\ ret' = decode_domain_name(arg.input_buffer, arg.input_pos, SizeofDomainNameBuffer)
    /\ UNCHANGED << main_vars, arg >>

SpecName == InitName /\ [][NameCall]_vars

\* octets of an options area: the pad and end markers, the option type
\* that is aggregated, and 1, which is another type, a length or a value
AggregateOctets == {OPTION_TYPE_PAD, 1, OPTION_TYPE_DOMAIN_SEARCH, OPTION_TYPE_END}

\* every options area of up to MaxAreaLen such octets
InitAggregate ==
    /\ Standalone
    /\ \E vendor_options \in SeqsOf(AggregateOctets, 1, MaxAreaLen) :
         arg = [fn |-> "fill_aggregate_buffer_from_option",
                vendor_options |-> vendor_options]

\* fill_aggregate_buffer_from_option for the domain search option: what it
\* returns, the size the first loop computed and the octets the second
\* loop wrote
AggregateCall ==
    /\ arg.fn = "fill_aggregate_buffer_from_option"
    /\ ret = NoCall
    /\ \E junk \in JunkOctets :
         LET required_size == RequiredSizeFrom(arg.vendor_options, 0,
                                               OPTION_TYPE_DOMAIN_SEARCH)
             filled == AggregateFrom(arg.vendor_options, 0, OPTION_TYPE_DOMAIN_SEARCH,
                                     << >>, required_size, junk)
         IN  ret' = [returned |-> fill_aggregate_buffer_from_option(
                                      arg.vendor_options, OPTION_TYPE_DOMAIN_SEARCH, junk),
                     required_size |-> required_size,
                     written |-> IF required_size = 0 THEN 0 ELSE Len(filled.copied)]
    /\ UNCHANGED << main_vars, arg >>

SpecAggregate == InitAggregate /\ [][AggregateCall]_vars

(***************************************************************************)
(* The list of list_node.c, link by link. A pointer is NullNode, the       *)
(* address of the list header (which is also the node made of lh_Head and  *)
(* lh_Tail), the address of lh_Tail (the node made of lh_Tail and          *)
(* lh_TailPred), or one of the nodes 1 .. MaxNodes. h holds the header     *)
(* and the links of the nodes.                                             *)
(***************************************************************************)
NullNode == 0
ListAddr == -1
TailAddr == -2

\* p->ln_Succ and p->ln_Pred
Succ(h, p) ==
    CASE p = ListAddr -> h.lh_Head
      [] p = TailAddr -> h.lh_Tail
      [] OTHER -> h.ln_Succ[p]

Pred(h, p) ==
    CASE p = ListAddr -> h.lh_Tail
      [] p = TailAddr -> h.lh_TailPred
      [] OTHER -> h.ln_Pred[p]

\* p->ln_Succ = q and p->ln_Pred = q
SetSucc(h, p, q) ==
    CASE p = ListAddr -> [h EXCEPT !.lh_Head = q]
      [] p = TailAddr -> [h EXCEPT !.lh_Tail = q]
      [] OTHER -> [h EXCEPT !.ln_Succ[p] = q]

SetPred(h, p, q) ==
    CASE p = ListAddr -> [h EXCEPT !.lh_Tail = q]
      [] p = TailAddr -> [h EXCEPT !.lh_TailPred = q]
      [] OTHER -> [h EXCEPT !.ln_Pred[p] = q]

new_list(h) ==
    [h EXCEPT !.lh_Tail = NullNode, !.lh_Head = TailAddr, !.lh_TailPred = ListAddr]

\* add_node_to_list_head of list_node.c
add_node_to_list_head_links(h, node) ==
    LET head == h.lh_Head
        h1 == [h EXCEPT !.lh_Head = node]
        h2 == SetSucc(h1, node, head)
        h3 == SetPred(h2, node, ListAddr)
    IN  SetPred(h3, head, node)

add_node_to_list_tail_unlinked(h, node) ==
    LET tail == TailAddr
        tailPred == Pred(h, tail)
        h1 == SetPred(h, tail, node)
        h2 == SetSucc(h1, node, tail)
    IN  SetPred(h2, node, tailPred)

\* add_node_to_list_tail of list_node.c
add_node_to_list_tail_links(h, node) ==
    LET tail == TailAddr
        tailPred == Pred(h, tail)
        h1 == SetPred(h, tail, node)
        h2 == SetSucc(h1, node, tail)
        h3 == SetPred(h2, node, tailPred)
    IN  SetSucc(h3, tailPred, node)

\* insert_node: behind list_node, or in front of it when it is the node
\* at lh_Tail
insert_node(h, list_node, node) ==
    IF Succ(h, list_node) = NullNode
    THEN LET h1 == SetSucc(h, node, list_node)
             pred == Pred(h, list_node)
             h2 == SetPred(h1, node, pred)
             h3 == SetPred(h2, list_node, node)
         IN  SetSucc(h3, pred, node)
    ELSE LET succ == Succ(h, list_node)
             h1 == SetSucc(h, node, succ)
             h2 == SetPred(h1, node, list_node)
             h3 == SetPred(h2, succ, node)
         IN  SetSucc(h3, list_node, node)

remove_node(h, node) ==
    IF node # NullNode
    THEN LET next == Succ(h, node)
             pred == Pred(h, node)
             h1 == SetSucc(h, pred, next)
             h2 == SetPred(h1, next, pred)
         IN  SetSucc(SetPred(h2, node, NullNode), node, NullNode)
    ELSE h

is_list_empty(h) == Succ(h, h.lh_Head) = NullNode

\* remove_list_head and remove_list_tail: the node returned and the list
remove_list_head(h) ==
    IF ~is_list_empty(h)
    THEN [result |-> h.lh_Head, h |-> remove_node(h, h.lh_Head)]
    ELSE [result |-> NullNode, h |-> h]

remove_list_tail(h) ==
    IF ~is_list_empty(h)
    THEN [result |-> h.lh_TailPred, h |-> remove_node(h, h.lh_TailPred)]
    ELSE [result |-> NullNode, h |-> h]

get_list_head(h) == IF ~is_list_empty(h) THEN h.lh_Head ELSE NullNode

get_list_tail(h) == IF ~is_list_empty(h) THEN h.lh_TailPred ELSE NullNode

get_next_node(h, node) ==
    IF node # NullNode /\ Succ(h, Succ(h, node)) # NullNode THEN Succ(h, node)
    ELSE NullNode

get_previous_node(h, node) ==
    IF node # NullNode /\ Pred(h, Pred(h, node)) # NullNode THEN Pred(h, node)
    ELSE NullNode

\* the nodes a caller has; listed is what was put into the list and not
\* taken out, in the order the calls ask for, added the same nodes in the
\* order they were put in, tail_only whether add_node_to_list_tail alone
\* put them in
Nodes == 1 .. MaxNodes

Without(seq, node) == SelectSeq(seq, LAMBDA n : n # node)

Listed(h, listed, added, tail_only, node) ==
    [h |-> h, listed |-> listed, added |-> added, tail_only |-> tail_only,
     result |-> node]

ListCalls ==
    {"new_list", "add_node_to_list_head", "add_node_to_list_tail", "insert_node",
     "remove_node", "remove_list_head", "remove_list_tail"}

InitList ==
    /\ Standalone
    /\ arg = [fn |-> "new_list", node |-> NullNode]

ListNew ==
    /\ arg.fn = "new_list"
    /\ ret = NoCall
    /\ ret' = Listed(new_list([lh_Head |-> NullNode, lh_Tail |-> NullNode,
                               lh_TailPred |-> NullNode,
                               ln_Succ |-> [n \in Nodes |-> NullNode],
                               ln_Pred |-> [n \in Nodes |-> NullNode]]),
                     << >>, << >>, TRUE, NullNode)
    /\ UNCHANGED << main_vars, arg >>

ListAddHead ==
    /\ ret # NoCall
    /\ \E node \in Nodes :
         /\ \A i \in 1 .. Len(ret.listed) : ret.listed[i] # node
         /\ arg' = [fn |-> "add_node_to_list_head", node |-> node]
         /\ ret' = Listed(add_node_to_list_head_links(ret.h, node),
                          <<node>> \o ret.listed, Append(ret.added, node), FALSE,
                          NullNode)
    /\ UNCHANGED main_vars

ListAddTail ==
    /\ ret # NoCall
    /\ \E node \in Nodes :
         /\ \A i \in 1 .. Len(ret.listed) : ret.listed[i] # node
         /\ arg' = [fn |-> "add_node_to_list_tail", node |-> node]
         /\ ret' = Listed(add_node_to_list_tail_links(ret.h, node),
                          Append(ret.listed, node), Append(ret.added, node),
                          ret.tail_only, NullNode)
    /\ UNCHANGED main_vars

\* insert_node behind the k-th node of the list, behind the header (k = 0)
\* or in front of the node at lh_Tail (k = -1)
ListInsert ==
    /\ ret # NoCall
    /\ \E node \in Nodes, k \in -1 .. Len(ret.listed) :
         /\ \A i \in 1 .. Len(ret.listed) : ret.listed[i] # node
         /\ arg' = [fn |-> "insert_node", node |-> node]
         /\ LET list_node == IF k = -1 THEN TailAddr
                             ELSE IF k = 0 THEN ListAddr ELSE ret.listed[k]
                at == IF k = -1 THEN Len(ret.listed) ELSE k
            IN  ret' = Listed(insert_node(ret.h, list_node, node),
                              SubSeq(ret.listed, 1, at) \o <<node>>
                              \o SubSeq(ret.listed, at + 1, Len(ret.listed)),
                              Append(ret.added, node), FALSE, NullNode)
    /\ UNCHANGED main_vars

ListRemove ==
    /\ ret # NoCall
    /\ \E k \in 1 .. Len(ret.listed) :
         /\ arg' = [fn |-> "remove_node", node |-> ret.listed[k]]
         /\ ret' = Listed(remove_node(ret.h, ret.listed[k]),
                          Without(ret.listed, ret.listed[k]),
                          Without(ret.added, ret.listed[k]), ret.tail_only, NullNode)
    /\ UNCHANGED main_vars

ListRemoveHead ==
    /\ ret # NoCall
    /\ LET removed == remove_list_head(ret.h)
       IN  /\ arg' = [fn |-> "remove_list_head", node |-> NullNode]
           /\ ret' = Listed(removed.h, SubSeq(ret.listed, 2, Len(ret.listed)),
                            IF ret.listed = << >> THEN ret.added
                            ELSE Without(ret.added, Head(ret.listed)),
                            ret.tail_only,
                            removed.result)
    /\ UNCHANGED main_vars

ListRemoveTail ==
    /\ ret # NoCall
    /\ LET removed == remove_list_tail(ret.h)
       IN  /\ arg' = [fn |-> "remove_list_tail", node |-> NullNode]
           /\ ret' = Listed(removed.h, SubSeq(ret.listed, 1, Len(ret.listed) - 1),
                            IF ret.listed = << >> THEN ret.added
                            ELSE Without(ret.added, ret.listed[Len(ret.listed)]),
                            ret.tail_only,
                            removed.result)
    /\ UNCHANGED main_vars

SpecList ==
    InitList /\ [][ListNew \/ ListAddHead \/ ListAddTail \/ ListInsert \/ ListRemove
                   \/ ListRemoveHead \/ ListRemoveTail]_vars

\* the run as it is scheduled: time passes while an alarm is pending, the
\* kernel delivers a SIGALRM that is due, and main takes its next step
Fairness ==
    /\ WF_vars(Tick)
    /\ WF_vars(Alarm)
    /\ WF_vars(PcapLoopBreak)
    /\ WF_vars(PrintResponder)
    /\ WF_vars(PrintDone)
    /\ WF_vars(CheckMin)

FairSpec == Init /\ [][Next]_vars /\ Fairness

(***************************************************************************)
(* Properties.                                                             *)
(***************************************************************************)
PairOf(r) == <<r.server_ipv4_address, r.server_mac_address>>

\* C1: a frame that fails an acceptance gate (ethertype, destination MAC,
\* IP protocol, UDP source port, opcode, magic cookie, xid, or no
\* dhcp-message-type option equal to OFFER) leaves the registry as it was.
C1_RejectedFrameLeavesRegistry ==
    [][ last'.gate_failed
        => dhcp_server_response_list' = dhcp_server_response_list ]_vars

\* C2: the registry holds exactly one responder for each pair (IPv4, MAC)
\* an OFFER was recorded from, and an accepted OFFER of a pair already
\* recorded leaves the registry (count, order, stamps, key/value lists)
\* unchanged.
C2_OneResponderPerPair ==
    /\ [](/\ Pairs(dhcp_server_response_list) = Pairs(recorded)
          /\ Cardinality(Pairs(dhcp_server_response_list)) = Len(dhcp_server_response_list))
    /\ [][ last'.duplicate
           => dhcp_server_response_list' = dhcp_server_response_list ]_vars

\* two responders that share the IPv4 address and two that share the MAC
\* address are recorded, and a duplicate has been handled
C2_Witness ==
    /\ last.duplicate
    /\ Len(dhcp_server_response_list) = 2
    /\ \/ dhcp_server_response_list[1].server_ipv4_address
            = dhcp_server_response_list[2].server_ipv4_address
       \/ dhcp_server_response_list[1].server_mac_address
            = dhcp_server_response_list[2].server_mac_address

\* C3: the number of responders never decreases, and with --max-responses=N
\* it never exceeds N.
C3_SizeMonotoneAndCapped ==
    /\ [](max_responses > 0 => Len(dhcp_server_response_list) <= max_responses)
    /\ [][ Len(dhcp_server_response_list') >= Len(dhcp_server_response_list) ]_vars

\* the cap was reached and ended the capture loop
C3_Witness ==
    /\ max_responses = 2
    /\ Len(dhcp_server_response_list) = max_responses
    /\ loop_exit = "break"
    /\ pc = "exit"

\* the most recent pass of print_dhcp_server_data over the registry
PrintedNow == SubSeq(stdout, Len(stdout) - (print_pos - 1) + 1, Len(stdout))

\* C4: responders are rendered in the order of their first recorded OFFER,
\* duplicates do not reorder them, and the key/value entries of each are
\* rendered in the order they were appended.
C4_RenderOrder ==
    /\ Len(dhcp_server_response_list) = Len(recorded)
    /\ \A i \in 1 .. Len(recorded) :
          /\ PairOf(dhcp_server_response_list[i]) = PairOf(recorded[i])
          /\ dhcp_server_response_list[i].dhcp_response
                \o dhcp_server_response_list[i].dhcp_option = recorded[i].appended
    /\ print_pos - 1 <= Len(stdout)
    /\ print_pos - 1 <= Len(recorded)
    /\ \A k \in 1 .. (print_pos - 1) :
          /\ PrintedNow[k].time_received = recorded[k].processed_at
          /\ Len(PrintedNow[k].lines) = Len(recorded[k].appended)
          /\ \A j \in 1 .. Len(recorded[k].appended) :
                PrintedNow[k].lines[j][2] = recorded[k].appended[j].value
    /\ (pc = "exit" /\ loop_entered /\ ~opt_quiet) => print_pos = Len(recorded) + 1

\* a report of two responders, after a duplicate of the first arrived
\* behind the first OFFER of the second
C4_Witness ==
    /\ pc = "exit"
    /\ late_duplicate
    /\ Len(stdout) = 2
    /\ Len(stdout[1].lines) > 6

C6_ExitStatus ==
    pc = "exit"
    => /\ result \in {EXIT_SUCCESS, EXIT_FAILURE}
       /\ (result = EXIT_SUCCESS
            <=> /\ setup_ok
                /\ send_ok
                /\ (opt_min_response_count > 0
                    => Len(dhcp_server_response_list) >= opt_min_response_count))

\* a quiet run that recorded fewer responders than --min-responses asks for
C6_Witness ==
    /\ pc = "exit"
    /\ opt_quiet
    /\ setup_ok /\ send_ok
    /\ opt_min_response_count = 2
    /\ Len(dhcp_server_response_list) = 1
    /\ result = EXIT_FAILURE

\* C7: with --timeout=S, S > 0, the capture loop is left whatever frames
\* arrive, and the run goes on to the report and to its exit.
C7_DeadlineEndsRun ==
    (pc = "loop" /\ opt_timeout > 0)
    ~> (pc = "exit" /\ loop_exit # "none" /\ result # -1)

\* the deadline ended a run in which no OFFER arrived
C7_Witness ==
    /\ pc = "exit"
    /\ opt_timeout > 0
    /\ opt_max_response_count = 0
    /\ loop_exit = "alarm"
    /\ dhcp_server_response_list = << >>

\* C8: the DISCOVER is injected once, before the capture loop; when the
\* injection fails the loop is not entered, nothing is reported and the
\* exit status is not 0.
C8_InjectOnce ==
    /\ inject_count <= 1
    /\ (pc \in {"arm", "loop", "print", "count"} \/ loop_entered)
          => (inject_count = 1 /\ send_ok)
    /\ (inject_count = 1 /\ ~send_ok)
          => /\ ~loop_entered
             /\ stdout = << >>
             /\ pc = "exit"
             /\ result # EXIT_SUCCESS /\ result # -1

\* the injection failed
C8_Witness ==
    /\ inject_count = 1
    /\ ~send_ok
    /\ pc = "exit"

\* C9: the BOOTP payload of the DISCOVER is at least 300 octets and the
\* frame at least 14 + 20 + 8 + 300 = 342 octets.
C9_MinimumSize ==
    discover # NoFrame
    => /\ discover.uh_ulen - SizeofUdphdr >= MinDhcpMessage
       /\ discover.frame_len >= SizeofEtherHeader + SizeofIp + SizeofUdphdr + MinDhcpMessage

\* C10: the DISCOVER frame handed to the injector is at most 14 + MTU
\* octets long.
C10_FitsMtu ==
    discover # NoFrame => discover.frame_len <= SizeofEtherHeader + interface_mtu

\* C11: with the checksum of a buffer stored in its zeroed checksum field,
\* the checksum over the buffer is zero, for even and odd lengths; the IP
\* header and the UDP datagram the send path builds verify on the receive
\* path.
C11_ChecksumRoundTrip ==
    /\ (arg.fn = "in_cksum" /\ ret # NoCall) => ret.again = 0
    /\ (arg.fn = "udp_output" /\ ret # NoCall)
          => (ret.ip_checksum = 0 /\ ret.udp_checksum = 0)

\* a buffer of odd length with a carry out of 16 bits, and a packet whose
\* UDP checksum is verified
C11_Witness ==
    /\ arg.fn = "in_cksum"
    /\ ret # NoCall
    /\ Len(arg.buffer) % 2 = 1
    /\ SumWords(arg.buffer, 0, Len(arg.buffer)) > 65535
    /\ ret.again = 0

\* C12: without --ignore-checksums a frame whose IP header checksum fails,
\* or whose UDP checksum is given and fails, does not reach the decoding of
\* dhcp_input; a UDP checksum of zero is not verified; with
\* --ignore-checksums neither checksum keeps a frame out.
C12_ChecksumGates ==
    (arg.fn = "ether_input" /\ ret # NoCall)
    => LET f == arg.frame
           checksums_pass == f.ip_sum_ok /\ f.uh_sum \in {"valid", "zero"}
           other_gates_pass == Accepted(f, arg.transaction_id, TRUE)
       IN  (Len(ret.list) = 1)
           <=> (other_gates_pass /\ (arg.ignore_checksums \/ checksums_pass))

\* an OFFER without UDP checksum is recorded although checksums are verified
C12_Witness ==
    /\ arg.fn = "ether_input"
    /\ ret # NoCall
    /\ ~arg.ignore_checksums
    /\ arg.frame.uh_sum = "zero"
    /\ Len(ret.list) = 1

\* C13: decoding the options of byte-identical frames yields the same
\* key/value sequence: nothing emitted depends on memory the decoder did
\* not write itself (contents of the scratch buffer it never stored, octets
\* behind the frame).
C13_DecoderDeterministic ==
    (arg.fn = "dhcp_input" /\ ret # NoCall)
    => \A junk \in JunkOctets :
          OptionLoop(arg.vend, 0, << >>, {}, junk).calls = ret.options.calls

\* C14: for aggregated option 119 data that is a concatenation of valid
\* name records (each ending in a zero label or in a pointer to an earlier
\* offset) the decoded text holds exactly those names, expanded, in order,
\* none dropped, truncated or duplicated.
C14_AllNamesDecoded ==
    (arg.fn = "decode_domain_search" /\ ret # NoCall)
    => (~ret.hangs /\ ret.buffer = ExpectedSearch(arg.records))

\* the same for the lists whose text fits the text buffer
C14_NamesDecodedWhenTheyFit ==
    (arg.fn = "decode_domain_search" /\ ret # NoCall
     /\ Len(ExpectedSearch(arg.records)) < SizeofTextBuffer)
    => (~ret.hangs /\ ret.buffer = ExpectedSearch(arg.records))

\* the options of an options area as the TLV parse finds them: type,
\* length and the value octets inside the area
RECURSIVE TlvParse(_, _)
TlvParse(v, pos) ==
    IF pos >= Len(v) THEN << >>
    ELSE IF At(v, pos) = OPTION_TYPE_PAD THEN TlvParse(v, pos + 1)
    ELSE IF At(v, pos) = OPTION_TYPE_END \/ pos + 2 >= Len(v) THEN << >>
    ELSE LET option_length == At(v, pos + 1)
             upto == IF pos + 2 + option_length < Len(v) THEN pos + 2 + option_length
                     ELSE Len(v)
         IN  << [type |-> At(v, pos), length |-> option_length,
                 value |-> SubSeq(v, pos + 3, upto)] >>
             \o TlvParse(v, pos + 2 + option_length)

\* the values of the options of one type, concatenated in arrival order
ValuesOf(v, type) ==
    LET tlvs == TlvParse(v, 0)
    IN  Flatten([i \in 1 .. Len(tlvs) |->
                    IF tlvs[i].type = type THEN tlvs[i].value ELSE << >>])

\* C15: the buffer aggregated for option 119 is the concatenation, in
\* arrival order, of the values of exactly the option 119 TLVs the TLV
\* parse of the options area finds, whatever the octets of the other
\* options are.
C15_AggregateIsConcatenation ==
    (arg.fn = "dhcp_input" /\ ret # NoCall)
    => LET values == ValuesOf(arg.vend, OPTION_TYPE_DOMAIN_SEARCH)
       IN  /\ ~ret.aggregate.aborts
           /\ ret.aggregate.option_data_found <=> (values # << >>)
           /\ ret.aggregate.option_data_found => ret.aggregate.aggregate_buffer = values

\* a route as the text shows it: A.B.C.D/p -> R, without the /32 for a
\* host route, the router alone for the default route
RenderRoute(r) ==
    IF r.p = 0 THEN Dotted(r.router)
    ELSE IF r.p = 32 THEN Dotted(r.destination) \o " -> " \o Dotted(r.router)
    ELSE Dotted(r.destination) \o "/" \o ToString(r.p) \o " -> " \o Dotted(r.router)

RECURSIVE RenderRoutes(_)
RenderRoutes(routes) ==
    IF Len(routes) = 1 THEN RenderRoute(routes[1])
    ELSE RenderRoute(routes[1]) \o ", " \o RenderRoutes(Tail(routes))

\* C16: a classless static route option whose routes begin with a prefix
\* length p in 0 .. 32, followed by ceil(p/8) destination octets and four
\* router octets, is emitted as the routes rendered A.B.C.D/p -> R and
\* separated by ", ".
C16_RoutesRendered ==
    (arg.fn = "decode_classless_static_route" /\ ret # NoCall)
    => ret.calls = << KV("classless-static-route", "%s", << >>, RenderRoutes(arg.routes)) >>

\* options with a malformed payload: a length that overruns the options
\* area, an invalid prefix length and a truncated entry in a classless
\* static route, a domain name label with an undefined compression scheme
MalformedOptions ==
    { <<1, 200, 255, 255>>, <<121, 1, 33>>, <<121, 3, 0, 192, 168>>, <<119, 2, 128, 0>> }

\* well-formed options and the entry each is decoded to
WellFormedOptions ==
    { <<53, 1, 2>>, <<54, 4, 10, 0, 0, 1>>, <<1, 4, 255, 255, 255, 0>>,
      <<51, 4, 0, 1, 81, 128>>, <<26, 2, 5, 220>>, <<60, 2, 7, 7>> }

EntriesOf(option) ==
    IF option \in MalformedOptions THEN << >>
    ELSE OptionLoop(option \o <<OPTION_TYPE_END>>, 0, << >>, {}, 0).calls

\* C17: an option with a malformed payload leads to no key/value entry,
\* and the well-formed options before and after it are decoded as they
\* are without it.
C17_MalformedOptionSkipped ==
    (arg.fn = "dhcp_input" /\ ret # NoCall
     /\ \A i \in 1 .. Len(arg.options) :
           arg.options[i] \in MalformedOptions \cup WellFormedOptions)
    => /\ ~ret.options.stops
       /\ ret.options.calls
            = Flatten([i \in 1 .. Len(arg.options) |-> EntriesOf(arg.options[i])])

\* the seconds the fields of a readable form stand for, and the unit word
\* that goes with their number
FieldSeconds(n) ==
    CASE Len(n) = 2 -> (n[1] * 60) + n[2]
      [] Len(n) = 3 -> (n[1] * 3600) + (n[2] * 60) + n[3]
      [] Len(n) = 4 -> (n[1] * 86400) + (n[2] * 3600) + (n[3] * 60) + n[4]

UnitOf(n) == CASE Len(n) = 2 -> "minute" [] Len(n) = 3 -> "hour" [] Len(n) = 4 -> "day"

\* C20: a duration below 60 seconds gets no parenthetical; from 60 on the
\* fields of the parenthetical recombine exactly to the duration, every
\* field after the first is in its range (hours below 24, minutes and
\* seconds below 60), the unit word is singular exactly when the first
\* field is 1, and 86400 is shown as "86400 seconds (1:00:00:00 day)".
C20_ReadableForm ==
    (arg.fn = "convert_seconds_to_readable_form" /\ ret # NoCall)
    => LET n == ret.form.n
       IN  /\ arg.seconds < 60 => (n = << >> /\ ret.buffer = "")
           /\ arg.seconds >= 60 =>
                 /\ Len(n) \in 2 .. 4
                 /\ FieldSeconds(n) = arg.seconds
                 /\ \A i \in 2 .. Len(n) :
                       n[i] < (IF Len(n) = 4 /\ i = 2 THEN 24 ELSE 60)
                 /\ ret.form.unit = (IF n[1] = 1 THEN UnitOf(n) ELSE UnitOf(n) \o "s")
                 /\ ret.buffer = ReadableForm(ret.form)
           /\ ret.calls = << KV("ip-address-lease-time", "%u seconds%s",
                                <<arg.seconds>>, ret.buffer) >>
           /\ arg.seconds = 86400 => ret.buffer = " (1:00:00:00 day)"

C20_Witness ==
    /\ arg.fn = "convert_seconds_to_readable_form" /\ ret # NoCall
    /\ arg.seconds = 86400 /\ ret.form.n = <<1, 0, 0, 0>>
    /\ ret.calls[1].value.s = " (1:00:00:00 day)"

\* the number of bells in what was written to stderr
RECURSIVE Bells(_)
Bells(written) ==
    IF written = << >> THEN 0
    ELSE (IF Head(written) = "BEL" THEN 1 ELSE 0) + Bells(Tail(written))

\* C18: with --audible the bell is rung once for each distinct responder
\* and not for duplicates or rejected frames: the number of bells is the
\* size of the registry (as long as no allocation fails).
C18_OneBellPerResponder ==
    (arg.fn = "pcap_loop" /\ arg.audible /\ ret # NoCall /\ ~ret.alloc_failed)
    => Bells(ret.stderr) = Len(ret.st.list)

\* C19: when an allocation fails while an accepted OFFER of a new server
\* is recorded (the responder record or any of its key/value entries), the
\* response is skipped: the registry is as before, with no responder and
\* no partly filled responder for it, a line is written to stderr unless
\* --quiet is given, and the loop goes on.
C19_FailedAllocationSkipsResponse ==
    (arg.fn = "pcap_loop" /\ ret # NoCall /\ ret.oom # {}
     /\ Accepted(ret.frame, arg.transaction_id, FALSE)
     /\ find_dhcp_server_data(ret.before.list, ret.frame.ip_src,
                              ret.frame.ether_shost) = 0)
    => /\ ret.st.list = ret.before.list
       /\ ~ret.st.brk
       /\ ~arg.quiet => ( /\ ret.stderr # << >>
                          /\ ret.stderr[Len(ret.stderr)]
                               = "Not enough memory to record response" )


\* C21: the capture loop is left only by the deadline, which needs
\* --timeout > 0, or by the break after --max-responses responders were
\* recorded; a run with --timeout=0 and without --max-responses that
\* entered the loop stays in it and renders nothing, whatever frames arrive.
C21_LoopLeftByDeadlineOrBreak ==
    /\ loop_exit \in {"none", "alarm", "break"}
    /\ loop_exit = "alarm" => opt_timeout > 0
    /\ loop_exit = "break"
          => (max_responses > 0 /\ Len(dhcp_server_response_list) = max_responses)
    /\ (loop_entered /\ pc # "loop") => loop_exit # "none"
    /\ (loop_entered /\ opt_timeout = 0 /\ max_responses = 0)
          => (pc = "loop" /\ loop_exit = "none" /\ stdout = << >>)

\* without deadline and without --max-responses two responders were
\* recorded, time has passed and main is still in the capture loop
C21_Witness ==
    /\ opt_timeout = 0
    /\ max_responses = 0
    /\ pc = "loop"
    /\ clock = MaxClock
    /\ Len(dhcp_server_response_list) >= 2

\* C22: no octet is read beyond the data that is present: in_cksum stays
\* within the captured octets, and the TLV loop reads no octet behind the
\* end of the captured options area, whatever the UDP length field and the
\* option length octets say.
C22_NoReadBeyondCapture ==
    (arg.fn = "udp_input" /\ ret # NoCall)
    => /\ ret.checksum_end <= ret.captured
       /\ (ret.decoded /\ ~ret.stops) => ret.options_end <= Len(arg.vend)

EntriesAsked(option_type, option_length) ==
    CASE option_type = OPTION_TYPE_MAXIMUM_DHCP_MESSAGE_SIZE ->
           IF option_length >= 2 THEN 1 ELSE 0
      [] option_type = OPTION_TYPE_INTERFACE_MTU ->
           IF option_length = 2 THEN 1 ELSE 0
      [] option_type \in {OPTION_TYPE_GATEWAY, OPTION_TYPE_DNS, OPTION_TYPE_NTP_SERVERS} ->
           IF option_length > 0 /\ option_length % 4 = 0 THEN option_length \div 4 ELSE 0
      [] OTHER -> IF option_length >= 4 THEN 1 ELSE 0

\* C24: an option with a length constraint is emitted exactly when its
\* length satisfies the constraint: option 57 for every length >= 2,
\* option 26 for a length of 2 only, the 4-octet address and time options
\* with at least 4 octets, an address list with a non-zero multiple of 4
\* octets, and then with length/4 entries (the first entry is the message
\* type in front of the option).
C24_LengthConstraints ==
    (arg.fn = "dhcp_input" /\ ret # NoCall)
    => /\ ~ret.options.stops
       /\ Len(ret.options.calls) = 1 + EntriesAsked(arg.option_type, arg.option_length)

\* C25: the UDP checksum field of the transmitted DISCOVER is never
\* 0x0000, for every MAC address, transaction ID, broadcast flag and MTU.
C25_ChecksumFieldNeverZero ==
    (arg.fn = "dhcp_discover" /\ ret # NoCall) => ret.uh_sum # 0

\* C26: decode_domain_name returns for every input buffer and every start
\* position, also when a compression pointer points at itself, at a later
\* offset or into a cycle of pointers.
C26_DecodeDomainNameTerminates ==
    (arg.fn = "decode_domain_name" /\ ret # NoCall) => ~ret.hangs

\* C27: the report is rendered at most once and no responder is printed
\* twice, also when the deadline timer fires after the capture loop was
\* left.
C27_RenderedOnce ==
    /\ Len(stdout) <= Len(dhcp_server_response_list)
    /\ \A i, j \in 1 .. Len(stdout) : i # j => stdout[i] # stdout[j]

\* C28: when the report is rendered every responder of the registry
\* carries the complete list of response fields and options decoded from
\* a frame of its server, wherever in the frame callback the deadline
\* timer fired.
C28_NoHalfRecordedResponse ==
    pc \in {"print", "count", "exit"}
    => \A i \in 1 .. Len(dhcp_server_response_list) :
          LET data == dhcp_server_response_list[i]
          IN  \E f \in Frames(transaction_id) :
                 /\ f.ip_src = data.server_ipv4_address
                 /\ f.ether_shost = data.server_mac_address
                 /\ Accepted(f, transaction_id, opt_ignore_checksums)
                 /\ data.dhcp_response \o data.dhcp_option
                      = [k \in 1 .. Len(Calls(f)) |-> Calls(f)[k].kv]

\* C29: in fill_aggregate_buffer_from_option the assertion on output_pos
\* holds for every options area, and when the function returns true
\* every octet of the allocated buffer has been written.
C29_AggregateAssertionHolds ==
    (arg.fn = "fill_aggregate_buffer_from_option" /\ ret # NoCall)
    => /\ ~ret.returned.aborts
       /\ ret.returned.option_data_found => ret.written = ret.required_size

\* the walk over a list from node on, forward with get_next_node or
\* backward with get_previous_node, given up after fuel nodes
RECURSIVE WalkFrom(_, _, _, _)
WalkFrom(h, node, forward, fuel) ==
    IF node = NullNode \/ fuel = 0 THEN << >>
    ELSE <<node>> \o WalkFrom(h, IF forward THEN get_next_node(h, node)
                                 ELSE get_previous_node(h, node),
                              forward, fuel - 1)

Reverse(seq) == [i \in 1 .. Len(seq) |-> seq[Len(seq) + 1 - i]]

\* C30: after new_list and any sequence of add_node_to_list_head,
\* add_node_to_list_tail, insert_node, remove_node, remove_list_head and
\* remove_list_tail the walk from get_list_head with get_next_node visits
\* exactly the nodes in the list, each once, the walk from get_list_tail
\* with get_previous_node visits them in the reverse order, nodes added
\* with add_node_to_list_tail only are visited in insertion order, and
\* is_list_empty is true exactly when no node is in the list.
C30_ListInvariant ==
    ret # NoCall /\ arg.fn \in ListCalls
    => /\ WalkFrom(ret.h, get_list_head(ret.h), TRUE, MaxNodes + 1) = ret.listed
       /\ WalkFrom(ret.h, get_list_tail(ret.h), FALSE, MaxNodes + 1)
            = Reverse(ret.listed)
       /\ ret.tail_only
            => WalkFrom(ret.h, get_list_head(ret.h), TRUE, MaxNodes + 1) = ret.added
       /\ is_list_empty(ret.h) <=> ret.listed = << >>

\* a node was taken out of the middle of a list that was built with all
\* three ways of adding, and the list is not in insertion order
C30_Witness ==
    /\ ret # NoCall
    /\ arg.fn = "remove_node"
    /\ Len(ret.listed) = MaxNodes - 1
    /\ ~ret.tail_only
    /\ ret.listed # ret.added
    /\ arg.node \notin {ret.added[1], ret.added[Len(ret.added)]}

====
